---- MODULE Spec2Model ----
(***************************************************************************)
(* A model of src/linked_list.rs: the doubly-linked LinkedList<T>, its     *)
(* nodes on the heap, and the CursorMut that edits one list in place.      *)
(*                                                                         *)
(* The heap is an arena of MaxNodes node slots.  A pointer                 *)
(* Option<NonNull<Node<T>>> is a slot number, or None.  Box::new takes the *)
(* lowest free slot (the address the allocator returns is never observed   *)
(* by the code); Box::from_raw followed by the drop of the box frees it.   *)
(* A LinkedList<T> value lives in one of MaxLists list slots; the cursor is *)
(* taken on the list in slot 1 (any list value can be moved there).        *)
(* A panic (unwrap of None, usize overflow in a build with overflow        *)
(* checks) is recorded in `panicked`, after which nothing more runs.       *)
(***************************************************************************)
EXTENDS Integers, Sequences, FiniteSets, TLC

\* ---------------------------------------------------------------- bounds
MaxNodes == 3
MaxLists == 2
MaxVal == 2
MaxOps == 5
\* usize is modelled UsizeBits wide (the source's is 64; the wrap-around is
\* the same at any width).
UsizeBits == 8

\* ------------------------------------------------------------- constants
\* Option::None of a pointer or of an element.
None == 0
\* Option::None of CursorMut::index (Some(0) is a valid index).
NoIdx == 0 - 1

NodeIds == 1..MaxNodes
ListIds == 1..MaxLists
Values == 1..MaxVal
UsizeMod == 2 ^ UsizeBits

VARIABLES
    nodes,      \* the heap: slot -> Node (prev, next, elem) and whether allocated
    lists,      \* list slot -> LinkedList (head, tail, len) and whether it exists
    cursor,     \* the CursorMut alive, if any: (list, cur, index); list = None: no cursor
    last,       \* the last call: its name, the list it was called on, what it returned
    watch,      \* the calls that `last` records (every other call leaves Idle there)
    panicked,   \* a call has panicked
    ref,        \* reference double-ended sequence run beside list 1
    log,        \* the pushes made so far, each marked once it has been popped
                \* (for fifth.rs: what each pop_front so far returned)
    pushes,     \* number of pushes made
    pops,       \* number of pops that returned a value
    itr,        \* the Iter or IterMut alive, if any, and how much it has yielded
    fifth,      \* the queue of fifth.rs: its heap, head and tail, and stale accesses
    fourth      \* the deque of fourth.rs: its Rc nodes with their counts, head, tail

vars == <<nodes, lists, cursor, last, watch, panicked, ref, log, pushes, pops, itr,
         fifth, fourth>>
\* What the list and cursor calls of Next leave alone.
ghost == <<ref, log, pushes, pops, itr, fifth, fourth>>

\* ------------------------------------------------------------ data model
FreeNode == [prev |-> None, next |-> None, elem |-> None, live |-> FALSE]
NewNode(elem) == [prev |-> None, next |-> None, elem |-> elem, live |-> TRUE]

\* LinkedList::new
new == [head |-> None, tail |-> None, len |-> 0, live |-> TRUE]
NoList == [head |-> None, tail |-> None, len |-> 0, live |-> FALSE]

NoCursor == [list |-> None, cur |-> None, index |-> NoIdx]

\* No iterator: `state` is the Iter/IterMut struct, fronts and backs count
\* the items that next() and next_back() have yielded.
NoIter == [list |-> None, kind |-> "none",
           state |-> [front |-> None, back |-> None, len |-> 0],
           fronts |-> 0, backs |-> 0]

\* fifth.rs: a Node (elem, next) not allocated, and List::new; `stale` tells
\* whether a node was accessed through a pointer after it was freed.
FifthFree == [elem |-> None, next |-> None, live |-> FALSE]
FifthNew ==
    [nodes |-> [n \in NodeIds |-> FifthFree], head |-> None, tail |-> None, stale |-> FALSE]

\* fourth.rs: an Rc<RefCell<Node>> (elem, next, prev and its strong count)
\* not allocated, and List::new.
FourthFree == [elem |-> None, next |-> None, prev |-> None, strong |-> 0]
FourthNew == [nodes |-> [n \in NodeIds |-> FourthFree], head |-> None, tail |-> None]

\* Box::new: the slot the allocator hands out.
Alloc(ns) == CHOOSE n \in NodeIds : ~ns[n].live /\ \A m \in NodeIds : ~ns[m].live => n <= m
HasFree(ns) == \E n \in NodeIds : ~ns[n].live
FreeSlot(ls) == CHOOSE l \in ListIds : ~ls[l].live /\ \A m \in ListIds : ~ls[m].live => l <= m
HasFreeSlot(ls) == \E l \in ListIds : ~ls[l].live

\* usize arithmetic: the wrapped result, and whether it overflowed.
USub(a, b) == (a - b + UsizeMod) % UsizeMod
USubOverflows(a, b) == a < b
UAdd(a, b) == (a + b) % UsizeMod
UAddOverflows(a, b) == a + b >= UsizeMod

\* ------------------------------------------------- LinkedList operations
\* Each is a function of the heap ns and the list value L, giving the new
\* heap and list, the value returned and whether the call panicked.

\* A push_front that does not point the old head's prev at the new node.
PushFront_NoBackLink(ns, L, elem) ==
    LET new_node == Alloc(ns)
        ns1 == [ns EXCEPT ![new_node] = NewNode(elem)]
        ns2 == IF L.head # None
               THEN [ns1 EXCEPT ![new_node].next = L.head]
               ELSE ns1
        L1 == IF L.head # None THEN L ELSE [L EXCEPT !.tail = new_node]
    IN [nodes |-> ns2,
        list |-> [L1 EXCEPT !.head = new_node, !.len = UAdd(L.len, 1)],
        ret |-> None,
        panic |-> UAddOverflows(L.len, 1)]

PushFront(ns, L, elem) ==
    LET new_node == Alloc(ns)
        ns1 == [ns EXCEPT ![new_node] = NewNode(elem)]
        ns2 == IF L.head # None
               THEN [ns1 EXCEPT ![L.head].prev = new_node, ![new_node].next = L.head]
               ELSE ns1
        L1 == IF L.head # None THEN L ELSE [L EXCEPT !.tail = new_node]
    IN [nodes |-> ns2,
        list |-> [L1 EXCEPT !.head = new_node, !.len = UAdd(L.len, 1)],
        ret |-> None,
        panic |-> UAddOverflows(L.len, 1)]

\* A push_back that links the new node in at the front.
PushBack_AtFront(ns, L, elem) == PushFront(ns, L, elem)

PushBack(ns, L, elem) ==
    LET new_node == Alloc(ns)
        ns1 == [ns EXCEPT ![new_node] = NewNode(elem)]
        ns2 == IF L.tail # None
               THEN [ns1 EXCEPT ![L.tail].next = new_node, ![new_node].prev = L.tail]
               ELSE ns1
        L1 == IF L.tail # None THEN L ELSE [L EXCEPT !.head = new_node]
    IN [nodes |-> ns2,
        list |-> [L1 EXCEPT !.tail = new_node, !.len = UAdd(L.len, 1)],
        ret |-> None,
        panic |-> UAddOverflows(L.len, 1)]

\* A pop_front that decrements len before looking at head.
PopFront_NoGuard(ns, L) ==
    IF L.head = None
    THEN [nodes |-> ns, list |-> [L EXCEPT !.len = USub(L.len, 1)], ret |-> None,
          panic |-> USubOverflows(L.len, 1)]
    ELSE LET boxed_head == ns[L.head]
             new_head == boxed_head.next
             ns1 == IF new_head # None THEN [ns EXCEPT ![new_head].prev = None] ELSE ns
         IN [nodes |-> [ns1 EXCEPT ![L.head] = FreeNode],
             list |-> [L EXCEPT !.head = new_head,
                                !.tail = IF new_head # None THEN L.tail ELSE None,
                                !.len = USub(L.len, 1)],
             ret |-> boxed_head.elem,
             panic |-> USubOverflows(L.len, 1)]

\* A pop_front that leaves len alone.
PopFront_NoLen(ns, L) ==
    IF L.head = None
    THEN [nodes |-> ns, list |-> L, ret |-> None, panic |-> FALSE]
    ELSE LET boxed_head == ns[L.head]
             new_head == boxed_head.next
             ns1 == IF new_head # None THEN [ns EXCEPT ![new_head].prev = None] ELSE ns
         IN [nodes |-> [ns1 EXCEPT ![L.head] = FreeNode],
             list |-> [L EXCEPT !.head = new_head,
                                !.tail = IF new_head # None THEN L.tail ELSE None],
             ret |-> boxed_head.elem,
             panic |-> FALSE]

\* A pop_front that detaches the tail node.
PopFront_TakesTail(ns, L) ==
    IF L.tail = None
    THEN [nodes |-> ns, list |-> L, ret |-> None, panic |-> FALSE]
    ELSE LET boxed_tail == ns[L.tail]
             new_tail == boxed_tail.prev
             ns1 == IF new_tail # None THEN [ns EXCEPT ![new_tail].next = None] ELSE ns
         IN [nodes |-> [ns1 EXCEPT ![L.tail] = FreeNode],
             list |-> [L EXCEPT !.tail = new_tail,
                                !.head = IF new_tail # None THEN L.head ELSE None,
                                !.len = USub(L.len, 1)],
             ret |-> boxed_tail.elem,
             panic |-> USubOverflows(L.len, 1)]

PopFront(ns, L) ==
    IF L.head = None
    THEN [nodes |-> ns, list |-> L, ret |-> None, panic |-> FALSE]
    ELSE LET boxed_head == ns[L.head]
             new_head == boxed_head.next
             ns1 == IF new_head # None THEN [ns EXCEPT ![new_head].prev = None] ELSE ns
         IN [nodes |-> [ns1 EXCEPT ![L.head] = FreeNode],
             list |-> [L EXCEPT !.head = new_head,
                                !.tail = IF new_head # None THEN L.tail ELSE None,
                                !.len = USub(L.len, 1)],
             ret |-> boxed_head.elem,
             panic |-> USubOverflows(L.len, 1)]

\* A pop_back that forgets to clear head when the list becomes empty.
PopBack_KeepsHead(ns, L) ==
    IF L.tail = None
    THEN [nodes |-> ns, list |-> L, ret |-> None, panic |-> FALSE]
    ELSE LET boxed_tail == ns[L.tail]
             new_tail == boxed_tail.prev
             ns1 == IF new_tail # None THEN [ns EXCEPT ![new_tail].next = None] ELSE ns
         IN [nodes |-> [ns1 EXCEPT ![L.tail] = FreeNode],
             list |-> [L EXCEPT !.tail = new_tail, !.len = USub(L.len, 1)],
             ret |-> boxed_tail.elem,
             panic |-> USubOverflows(L.len, 1)]

PopBack(ns, L) ==
    IF L.tail = None
    THEN [nodes |-> ns, list |-> L, ret |-> None, panic |-> FALSE]
    ELSE LET boxed_tail == ns[L.tail]
             new_tail == boxed_tail.prev
             ns1 == IF new_tail # None THEN [ns EXCEPT ![new_tail].next = None] ELSE ns
         IN [nodes |-> [ns1 EXCEPT ![L.tail] = FreeNode],
             list |-> [L EXCEPT !.tail = new_tail,
                                !.head = IF new_tail # None THEN L.head ELSE None,
                                !.len = USub(L.len, 1)],
             ret |-> boxed_tail.elem,
             panic |-> USubOverflows(L.len, 1)]

\* front, back: the boundary element, None on an empty list.
front(ns, L) == IF L.head = None THEN None ELSE ns[L.head].elem
back(ns, L) == IF L.tail = None THEN None ELSE ns[L.tail].elem
len(L) == L.len
is_empty(L) == L.len = 0

\* clear and Drop: `while self.pop_front().is_some() {}`.  k bounds the
\* unfolding; a well-formed list needs len + 1 <= MaxNodes + 1 rounds.
RECURSIVE PopAll(_, _, _)
PopAll(ns, L, k) ==
    LET r == PopFront(ns, L)
    IN IF r.ret = None \/ r.panic \/ k = 0
       THEN [nodes |-> r.nodes, list |-> r.list, ret |-> None, panic |-> r.panic]
       ELSE PopAll(r.nodes, r.list, k - 1)

\* ------------------------------------------------------------- iterators
\* Iter / IterMut: (front, back, len).
iter(L) == [front |-> L.head, back |-> L.tail, len |-> L.len]

\* An Iter::next without the `len > 0` test.
IterNext_NoLenTest(ns, it) ==
    IF it.front # None
    THEN [it |-> [it EXCEPT !.len = USub(it.len, 1), !.front = ns[it.front].next],
          item |-> ns[it.front].elem]
    ELSE [it |-> it, item |-> None]

\* Iter::next: the iterator after the call and the item yielded.
IterNext(ns, it) ==
    IF it.len > 0 /\ it.front # None
    THEN [it |-> [it EXCEPT !.len = USub(it.len, 1), !.front = ns[it.front].next],
          item |-> ns[it.front].elem]
    ELSE [it |-> it, item |-> None]

\* Iter::next_back.
IterNextBack(ns, it) ==
    IF it.len > 0 /\ it.back # None
    THEN [it |-> [it EXCEPT !.len = USub(it.len, 1), !.back = ns[it.back].prev],
          item |-> ns[it.back].elem]
    ELSE [it |-> it, item |-> None]

\* LinkedList::iter_mut.
iter_mut(L) == [front |-> L.head, back |-> L.tail, len |-> L.len]

\* IterMut::next.
IterMutNext(ns, it) ==
    IF it.len > 0 /\ it.front # None
    THEN [it |-> [it EXCEPT !.len = USub(it.len, 1), !.front = ns[it.front].next],
          item |-> ns[it.front].elem]
    ELSE [it |-> it, item |-> None]

\* IterMut::next_back.
IterMutNextBack(ns, it) ==
    IF it.len > 0 /\ it.back # None
    THEN [it |-> [it EXCEPT !.len = USub(it.len, 1), !.back = ns[it.back].prev],
          item |-> ns[it.back].elem]
    ELSE [it |-> it, item |-> None]

\* size_hint() and ExactSizeIterator::len() of either iterator.
size_hint(it) == <<it.len, it.len>>

\* list.iter().collect(): next() until it yields None (at most k items).
RECURSIVE Collect(_, _, _)
Collect(ns, it, k) ==
    LET r == IterNext(ns, it)
    IN IF r.item = None \/ k = 0 THEN <<>>
       ELSE <<r.item>> \o Collect(ns, r.it, k - 1)

\* list.iter().rev().collect().
RECURSIVE CollectRev(_, _, _)
CollectRev(ns, it, k) ==
    LET r == IterNextBack(ns, it)
    IN IF r.item = None \/ k = 0 THEN <<>>
       ELSE <<r.item>> \o CollectRev(ns, r.it, k - 1)

Elems(l) == Collect(nodes, iter(lists[l]), MaxNodes + 1)
ElemsRev(l) == CollectRev(nodes, iter(lists[l]), MaxNodes + 1)

\* ------------------------------------------------------------- CursorMut
\* Each operation is a function of the heap ns, the cursor's list L and the
\* cursor c (and the list value moved in, for a splice), giving the new
\* heap, list and cursor, the list returned (out), the value returned (ret)
\* and whether the call panicked.

cursor_mut_at(l) == [list |-> l, cur |-> None, index |-> NoIdx]

index(c) == c.index

\* A move_next that does not test whether the list is empty.
MoveNext_NoEmptyTest(ns, L, c) ==
    IF c.cur # None
    THEN LET nx == ns[c.cur].next
         IN IF nx # None
            THEN IF c.index = NoIdx
                 THEN [cursor |-> [c EXCEPT !.cur = nx], panic |-> TRUE]
                 ELSE [cursor |-> [c EXCEPT !.cur = nx, !.index = UAdd(c.index, 1)],
                       panic |-> UAddOverflows(c.index, 1)]
            ELSE [cursor |-> [c EXCEPT !.cur = None, !.index = NoIdx], panic |-> FALSE]
    ELSE [cursor |-> [c EXCEPT !.cur = L.head, !.index = 0], panic |-> FALSE]

\* A move_next that wraps from the tail straight to the head.
MoveNext_Wraps(ns, L, c) ==
    IF c.cur # None
    THEN LET nx == ns[c.cur].next
         IN IF nx # None
            THEN [cursor |-> [c EXCEPT !.cur = nx, !.index = UAdd(c.index, 1)],
                  panic |-> c.index = NoIdx \/ UAddOverflows(c.index, 1)]
            ELSE [cursor |-> [c EXCEPT !.cur = L.head, !.index = 0], panic |-> FALSE]
    ELSE IF ~is_empty(L)
    THEN [cursor |-> [c EXCEPT !.cur = L.head, !.index = 0], panic |-> FALSE]
    ELSE [cursor |-> c, panic |-> FALSE]

MoveNext(ns, L, c) ==
    IF c.cur # None
    THEN LET nx == ns[c.cur].next
         IN IF nx # None
            THEN IF c.index = NoIdx
                 THEN [cursor |-> [c EXCEPT !.cur = nx], panic |-> TRUE]
                 ELSE [cursor |-> [c EXCEPT !.cur = nx, !.index = UAdd(c.index, 1)],
                       panic |-> UAddOverflows(c.index, 1)]
            ELSE [cursor |-> [c EXCEPT !.cur = None, !.index = NoIdx], panic |-> FALSE]
    ELSE IF ~is_empty(L)
    THEN [cursor |-> [c EXCEPT !.cur = L.head, !.index = 0], panic |-> FALSE]
    ELSE [cursor |-> c, panic |-> FALSE]

\* A move_prev that enters the tail from the ghost with index len.
MovePrev_OffByOne(ns, L, c) ==
    IF c.cur # None
    THEN LET pv == ns[c.cur].prev
         IN IF pv # None
            THEN IF c.index = NoIdx
                 THEN [cursor |-> [c EXCEPT !.cur = pv], panic |-> TRUE]
                 ELSE [cursor |-> [c EXCEPT !.cur = pv, !.index = USub(c.index, 1)],
                       panic |-> USubOverflows(c.index, 1)]
            ELSE [cursor |-> [c EXCEPT !.cur = None, !.index = NoIdx], panic |-> FALSE]
    ELSE IF ~is_empty(L)
    THEN [cursor |-> [c EXCEPT !.cur = L.tail, !.index = L.len], panic |-> FALSE]
    ELSE [cursor |-> c, panic |-> FALSE]

MovePrev(ns, L, c) ==
    IF c.cur # None
    THEN LET pv == ns[c.cur].prev
         IN IF pv # None
            THEN IF c.index = NoIdx
                 THEN [cursor |-> [c EXCEPT !.cur = pv], panic |-> TRUE]
                 ELSE [cursor |-> [c EXCEPT !.cur = pv, !.index = USub(c.index, 1)],
                       panic |-> USubOverflows(c.index, 1)]
            ELSE [cursor |-> [c EXCEPT !.cur = None, !.index = NoIdx], panic |-> FALSE]
    ELSE IF ~is_empty(L)
    THEN [cursor |-> [c EXCEPT !.cur = L.tail, !.index = USub(L.len, 1)],
          panic |-> USubOverflows(L.len, 1)]
    ELSE [cursor |-> c, panic |-> FALSE]

\* current, peek_next, peek_prev: the element, None if there is none.
current(ns, L, c) == IF c.cur = None THEN None ELSE ns[c.cur].elem
\* A peek_next that sees nothing ahead of the ghost.
peek_next_NothingAtGhost(ns, L, c) ==
    LET n == IF c.cur = None THEN None ELSE ns[c.cur].next
    IN IF n = None THEN None ELSE ns[n].elem

\* A peek_next that wraps from the tail to the head.
peek_next_Wraps(ns, L, c) ==
    LET n == IF c.cur = None \/ c.cur = L.tail THEN L.head ELSE ns[c.cur].next
    IN IF n = None THEN None ELSE ns[n].elem

peek_next(ns, L, c) ==
    LET n == IF c.cur = None THEN L.head ELSE ns[c.cur].next
    IN IF n = None THEN None ELSE ns[n].elem
peek_prev(ns, L, c) ==
    LET n == IF c.cur = None THEN L.tail ELSE ns[c.cur].prev
    IN IF n = None THEN None ELSE ns[n].elem

\* A split_before that leaves the cursor's index as it was.
SplitBefore_KeepsIndex(ns, L, c) ==
    IF c.cur # None
    THEN IF c.index = NoIdx
         THEN [nodes |-> ns, list |-> L, cursor |-> c, out |-> NoList, ret |-> None,
               panic |-> TRUE]
         ELSE LET prev == ns[c.cur].prev
                  ns1 == IF prev # None
                         THEN [ns EXCEPT ![prev].next = None, ![c.cur].prev = None]
                         ELSE ns
                  splitted_list == [head |-> IF prev # None THEN L.head ELSE None,
                                    tail |-> prev,
                                    len |-> c.index,
                                    live |-> TRUE]
              IN [nodes |-> ns1,
                  list |-> [L EXCEPT !.head = c.cur, !.len = USub(L.len, c.index)],
                  cursor |-> c,
                  out |-> splitted_list,
                  ret |-> None,
                  panic |-> USubOverflows(L.len, c.index)]
    ELSE [nodes |-> ns, list |-> new, cursor |-> c, out |-> L, ret |-> None,
          panic |-> FALSE]

\* A split_before that, at the ghost, returns an empty list and keeps its own.
SplitBefore_GhostKeepsAll(ns, L, c) ==
    IF c.cur # None
    THEN IF c.index = NoIdx
         THEN [nodes |-> ns, list |-> L, cursor |-> c, out |-> NoList, ret |-> None,
               panic |-> TRUE]
         ELSE LET prev == ns[c.cur].prev
                  ns1 == IF prev # None
                         THEN [ns EXCEPT ![prev].next = None, ![c.cur].prev = None]
                         ELSE ns
                  splitted_list == [head |-> IF prev # None THEN L.head ELSE None,
                                    tail |-> prev,
                                    len |-> c.index,
                                    live |-> TRUE]
              IN [nodes |-> ns1,
                  list |-> [L EXCEPT !.head = c.cur, !.len = USub(L.len, c.index)],
                  cursor |-> [c EXCEPT !.index = 0],
                  out |-> splitted_list,
                  ret |-> None,
                  panic |-> USubOverflows(L.len, c.index)]
    ELSE [nodes |-> ns, list |-> L, cursor |-> c, out |-> new, ret |-> None,
          panic |-> FALSE]

\* A split_before that leaves the len of the cursor's list as it was.
SplitBefore_KeepsLen(ns, L, c) ==
    IF c.cur # None
    THEN IF c.index = NoIdx
         THEN [nodes |-> ns, list |-> L, cursor |-> c, out |-> NoList, ret |-> None,
               panic |-> TRUE]
         ELSE LET prev == ns[c.cur].prev
                  ns1 == IF prev # None
                         THEN [ns EXCEPT ![prev].next = None, ![c.cur].prev = None]
                         ELSE ns
                  splitted_list == [head |-> IF prev # None THEN L.head ELSE None,
                                    tail |-> prev,
                                    len |-> c.index,
                                    live |-> TRUE]
              IN [nodes |-> ns1,
                  list |-> [L EXCEPT !.head = c.cur],
                  cursor |-> [c EXCEPT !.index = 0],
                  out |-> splitted_list,
                  ret |-> None,
                  panic |-> FALSE]
    ELSE [nodes |-> ns, list |-> new, cursor |-> c, out |-> L, ret |-> None,
          panic |-> FALSE]

SplitBefore(ns, L, c) ==
    IF c.cur # None
    THEN IF c.index = NoIdx
         THEN [nodes |-> ns, list |-> L, cursor |-> c, out |-> NoList, ret |-> None,
               panic |-> TRUE]
         ELSE LET prev == ns[c.cur].prev
                  ns1 == IF prev # None
                         THEN [ns EXCEPT ![prev].next = None, ![c.cur].prev = None]
                         ELSE ns
                  splitted_list == [head |-> IF prev # None THEN L.head ELSE None,
                                    tail |-> prev,
                                    len |-> c.index,
                                    live |-> TRUE]
              IN [nodes |-> ns1,
                  list |-> [L EXCEPT !.head = c.cur, !.len = USub(L.len, c.index)],
                  cursor |-> [c EXCEPT !.index = 0],
                  out |-> splitted_list,
                  ret |-> None,
                  panic |-> USubOverflows(L.len, c.index)]
    ELSE [nodes |-> ns, list |-> new, cursor |-> c, out |-> L, ret |-> None,
          panic |-> FALSE]

\* A split_after that counts the cursor's node into the list it returns.
SplitAfter_LenOffByOne(ns, L, c) ==
    IF c.cur # None
    THEN IF c.index = NoIdx
         THEN [nodes |-> ns, list |-> L, cursor |-> c, out |-> NoList, ret |-> None,
               panic |-> TRUE]
         ELSE LET next == ns[c.cur].next
                  ns1 == IF next # None
                         THEN [ns EXCEPT ![next].prev = None, ![c.cur].next = None]
                         ELSE ns
                  splitted_list == [head |-> next,
                                    tail |-> IF next # None THEN L.tail ELSE None,
                                    len |-> USub(L.len, c.index),
                                    live |-> TRUE]
              IN [nodes |-> ns1,
                  list |-> [L EXCEPT !.tail = c.cur, !.len = UAdd(c.index, 1)],
                  cursor |-> c,
                  out |-> splitted_list,
                  ret |-> None,
                  panic |-> \/ USubOverflows(L.len, c.index)
                            \/ UAddOverflows(c.index, 1)]
    ELSE [nodes |-> ns, list |-> new, cursor |-> c, out |-> L, ret |-> None,
          panic |-> FALSE]

\* A split_after that leaves the detached head linked back to the cursor.
SplitAfter_KeepsBackLink(ns, L, c) ==
    IF c.cur # None
    THEN IF c.index = NoIdx
         THEN [nodes |-> ns, list |-> L, cursor |-> c, out |-> NoList, ret |-> None,
               panic |-> TRUE]
         ELSE LET next == ns[c.cur].next
                  ns1 == IF next # None
                         THEN [ns EXCEPT ![c.cur].next = None]
                         ELSE ns
                  splitted_list == [head |-> next,
                                    tail |-> IF next # None THEN L.tail ELSE None,
                                    len |-> USub(USub(L.len, c.index), 1),
                                    live |-> TRUE]
              IN [nodes |-> ns1,
                  list |-> [L EXCEPT !.tail = c.cur, !.len = UAdd(c.index, 1)],
                  cursor |-> c,
                  out |-> splitted_list,
                  ret |-> None,
                  panic |-> \/ USubOverflows(L.len, c.index)
                            \/ USubOverflows(USub(L.len, c.index), 1)
                            \/ UAddOverflows(c.index, 1)]
    ELSE [nodes |-> ns, list |-> new, cursor |-> c, out |-> L, ret |-> None,
          panic |-> FALSE]

SplitAfter(ns, L, c) ==
    IF c.cur # None
    THEN IF c.index = NoIdx
         THEN [nodes |-> ns, list |-> L, cursor |-> c, out |-> NoList, ret |-> None,
               panic |-> TRUE]
         ELSE LET next == ns[c.cur].next
                  ns1 == IF next # None
                         THEN [ns EXCEPT ![next].prev = None, ![c.cur].next = None]
                         ELSE ns
                  splitted_list == [head |-> next,
                                    tail |-> IF next # None THEN L.tail ELSE None,
                                    len |-> USub(USub(L.len, c.index), 1),
                                    live |-> TRUE]
              IN [nodes |-> ns1,
                  list |-> [L EXCEPT !.tail = c.cur, !.len = UAdd(c.index, 1)],
                  cursor |-> c,
                  out |-> splitted_list,
                  ret |-> None,
                  panic |-> \/ USubOverflows(L.len, c.index)
                            \/ USubOverflows(USub(L.len, c.index), 1)
                            \/ UAddOverflows(c.index, 1)]
    ELSE [nodes |-> ns, list |-> new, cursor |-> c, out |-> L, ret |-> None,
          panic |-> FALSE]

\* The list value left in `input` when the call ends, which is then dropped.
Emptied(input) == [input EXCEPT !.head = None, !.tail = None, !.len = 0]

\* A splice_before that does not return early on an empty input.
SpliceBefore_NoEmptyGuard(ns, L, c, input) ==
    IF c.cur # None
    THEN LET prev == ns[c.cur].prev
             ns1 == IF prev # None /\ input.head # None
                    THEN [ns EXCEPT ![prev].next = input.head, ![input.head].prev = prev]
                    ELSE ns
             L1 == IF prev # None THEN L ELSE [L EXCEPT !.head = input.head]
             ns2 == [ns1 EXCEPT ![c.cur].prev = input.tail]
             ns3 == IF input.tail # None THEN [ns2 EXCEPT ![input.tail].next = c.cur] ELSE ns2
         IN IF input.head = None \/ input.tail = None \/ c.index = NoIdx
            THEN [nodes |-> ns, list |-> L, cursor |-> c, input |-> input,
                  dropped |-> NoList, panic |-> TRUE]
            ELSE [nodes |-> ns3,
                  list |-> [L1 EXCEPT !.len = UAdd(L.len, input.len)],
                  cursor |-> [c EXCEPT !.index = UAdd(c.index, input.len)],
                  input |-> Emptied(input),
                  dropped |-> NoList,
                  panic |-> \/ UAddOverflows(L.len, input.len)
                            \/ UAddOverflows(c.index, input.len)]
    ELSE IF L.tail # None
    THEN IF input.head = None
         THEN [nodes |-> ns, list |-> L, cursor |-> c, input |-> input,
               dropped |-> NoList, panic |-> TRUE]
         ELSE [nodes |-> [ns EXCEPT ![L.tail].next = input.head,
                                    ![input.head].prev = L.tail],
               list |-> [L EXCEPT !.tail = input.tail, !.len = UAdd(L.len, input.len)],
               cursor |-> c,
               input |-> Emptied(input),
               dropped |-> NoList,
               panic |-> UAddOverflows(L.len, input.len)]
    ELSE [nodes |-> ns, list |-> input, cursor |-> c, input |-> NoList, dropped |-> L,
          panic |-> FALSE]

\* A splice_before that leaves the cursor's index as it was.
SpliceBefore_KeepsIndex(ns, L, c, input) ==
    IF is_empty(input)
    THEN [nodes |-> ns, list |-> L, cursor |-> c, input |-> input, dropped |-> NoList,
          panic |-> FALSE]
    ELSE IF c.cur # None
    THEN LET prev == ns[c.cur].prev
             ns1 == IF prev # None
                    THEN [ns EXCEPT ![prev].next = input.head, ![input.head].prev = prev]
                    ELSE ns
             L1 == IF prev # None THEN L ELSE [L EXCEPT !.head = input.head]
             ns2 == [ns1 EXCEPT ![c.cur].prev = input.tail]
             ns3 == [ns2 EXCEPT ![input.tail].next = c.cur]
         IN IF input.head = None \/ input.tail = None \/ c.index = NoIdx
            THEN [nodes |-> ns, list |-> L, cursor |-> c, input |-> input,
                  dropped |-> NoList, panic |-> TRUE]
            ELSE [nodes |-> ns3,
                  list |-> [L1 EXCEPT !.len = UAdd(L.len, input.len)],
                  cursor |-> c,
                  input |-> Emptied(input),
                  dropped |-> NoList,
                  panic |-> \/ UAddOverflows(L.len, input.len)
                            \/ UAddOverflows(c.index, input.len)]
    ELSE IF L.tail # None
    THEN IF input.head = None
         THEN [nodes |-> ns, list |-> L, cursor |-> c, input |-> input,
               dropped |-> NoList, panic |-> TRUE]
         ELSE [nodes |-> [ns EXCEPT ![L.tail].next = input.head,
                                    ![input.head].prev = L.tail],
               list |-> [L EXCEPT !.tail = input.tail, !.len = UAdd(L.len, input.len)],
               cursor |-> c,
               input |-> Emptied(input),
               dropped |-> NoList,
               panic |-> UAddOverflows(L.len, input.len)]
    ELSE [nodes |-> ns, list |-> input, cursor |-> c, input |-> NoList, dropped |-> L,
          panic |-> FALSE]

\* A splice_before that, appending at the ghost, leaves its argument as it was.
SpliceBefore_KeepsInput(ns, L, c, input) ==
    IF is_empty(input)
    THEN [nodes |-> ns, list |-> L, cursor |-> c, input |-> input, dropped |-> NoList,
          panic |-> FALSE]
    ELSE IF c.cur # None
    THEN LET prev == ns[c.cur].prev
             ns1 == IF prev # None
                    THEN [ns EXCEPT ![prev].next = input.head, ![input.head].prev = prev]
                    ELSE ns
             L1 == IF prev # None THEN L ELSE [L EXCEPT !.head = input.head]
             ns2 == [ns1 EXCEPT ![c.cur].prev = input.tail]
             ns3 == [ns2 EXCEPT ![input.tail].next = c.cur]
         IN IF input.head = None \/ input.tail = None \/ c.index = NoIdx
            THEN [nodes |-> ns, list |-> L, cursor |-> c, input |-> input,
                  dropped |-> NoList, panic |-> TRUE]
            ELSE [nodes |-> ns3,
                  list |-> [L1 EXCEPT !.len = UAdd(L.len, input.len)],
                  cursor |-> [c EXCEPT !.index = UAdd(c.index, input.len)],
                  input |-> Emptied(input),
                  dropped |-> NoList,
                  panic |-> \/ UAddOverflows(L.len, input.len)
                            \/ UAddOverflows(c.index, input.len)]
    ELSE IF L.tail # None
    THEN IF input.head = None
         THEN [nodes |-> ns, list |-> L, cursor |-> c, input |-> input,
               dropped |-> NoList, panic |-> TRUE]
         ELSE [nodes |-> [ns EXCEPT ![L.tail].next = input.head,
                                    ![input.head].prev = L.tail],
               list |-> [L EXCEPT !.tail = input.tail, !.len = UAdd(L.len, input.len)],
               cursor |-> c,
               input |-> input,
               dropped |-> NoList,
               panic |-> UAddOverflows(L.len, input.len)]
    ELSE [nodes |-> ns, list |-> input, cursor |-> c, input |-> NoList, dropped |-> L,
          panic |-> FALSE]

SpliceBefore(ns, L, c, input) ==
    IF is_empty(input)
    THEN [nodes |-> ns, list |-> L, cursor |-> c, input |-> input, dropped |-> NoList,
          panic |-> FALSE]
    ELSE IF c.cur # None
    THEN LET prev == ns[c.cur].prev
             ns1 == IF prev # None
                    THEN [ns EXCEPT ![prev].next = input.head, ![input.head].prev = prev]
                    ELSE ns
             L1 == IF prev # None THEN L ELSE [L EXCEPT !.head = input.head]
             ns2 == [ns1 EXCEPT ![c.cur].prev = input.tail]
             ns3 == [ns2 EXCEPT ![input.tail].next = c.cur]
         IN IF input.head = None \/ input.tail = None \/ c.index = NoIdx
            THEN [nodes |-> ns, list |-> L, cursor |-> c, input |-> input,
                  dropped |-> NoList, panic |-> TRUE]
            ELSE [nodes |-> ns3,
                  list |-> [L1 EXCEPT !.len = UAdd(L.len, input.len)],
                  cursor |-> [c EXCEPT !.index = UAdd(c.index, input.len)],
                  input |-> Emptied(input),
                  dropped |-> NoList,
                  panic |-> \/ UAddOverflows(L.len, input.len)
                            \/ UAddOverflows(c.index, input.len)]
    ELSE IF L.tail # None
    THEN IF input.head = None
         THEN [nodes |-> ns, list |-> L, cursor |-> c, input |-> input,
               dropped |-> NoList, panic |-> TRUE]
         ELSE [nodes |-> [ns EXCEPT ![L.tail].next = input.head,
                                    ![input.head].prev = L.tail],
               list |-> [L EXCEPT !.tail = input.tail, !.len = UAdd(L.len, input.len)],
               cursor |-> c,
               input |-> Emptied(input),
               dropped |-> NoList,
               panic |-> UAddOverflows(L.len, input.len)]
    ELSE [nodes |-> ns, list |-> input, cursor |-> c, input |-> NoList, dropped |-> L,
          panic |-> FALSE]

\* A splice_after that also clears the prev link of the input's last node.
SpliceAfter_ClearsInnerLink(ns, L, c, input) ==
    IF is_empty(input)
    THEN [nodes |-> ns, list |-> L, cursor |-> c, input |-> input, dropped |-> NoList,
          panic |-> FALSE]
    ELSE IF c.cur # None
    THEN LET next == ns[c.cur].next
             ns0 == IF input.tail # None THEN [ns EXCEPT ![input.tail].prev = None] ELSE ns
             ns1 == IF next # None
                    THEN [ns0 EXCEPT ![next].prev = input.tail, ![input.tail].next = next]
                    ELSE ns0
             L1 == IF next # None THEN L ELSE [L EXCEPT !.tail = input.tail]
             ns2 == [ns1 EXCEPT ![c.cur].next = input.head]
             ns3 == [ns2 EXCEPT ![input.head].prev = c.cur]
         IN IF input.head = None \/ input.tail = None
            THEN [nodes |-> ns, list |-> L, cursor |-> c, input |-> input,
                  dropped |-> NoList, panic |-> TRUE]
            ELSE [nodes |-> ns3,
                  list |-> [L1 EXCEPT !.len = UAdd(L.len, input.len)],
                  cursor |-> c,
                  input |-> Emptied(input),
                  dropped |-> NoList,
                  panic |-> UAddOverflows(L.len, input.len)]
    ELSE IF L.head # None
    THEN IF input.tail = None
         THEN [nodes |-> ns, list |-> L, cursor |-> c, input |-> input,
               dropped |-> NoList, panic |-> TRUE]
         ELSE [nodes |-> [ns EXCEPT ![L.head].prev = input.tail,
                                    ![input.tail].next = L.head],
               list |-> [L EXCEPT !.head = input.head, !.len = UAdd(L.len, input.len)],
               cursor |-> c,
               input |-> Emptied(input),
               dropped |-> NoList,
               panic |-> UAddOverflows(L.len, input.len)]
    ELSE [nodes |-> ns, list |-> input, cursor |-> c, input |-> NoList, dropped |-> L,
          panic |-> FALSE]

\* A splice_after that does not move tail when it splices after the tail.
SpliceAfter_KeepsTail(ns, L, c, input) ==
    IF is_empty(input)
    THEN [nodes |-> ns, list |-> L, cursor |-> c, input |-> input, dropped |-> NoList,
          panic |-> FALSE]
    ELSE IF c.cur # None
    THEN LET next == ns[c.cur].next
             ns1 == IF next # None
                    THEN [ns EXCEPT ![next].prev = input.tail, ![input.tail].next = next]
                    ELSE ns
             L1 == L
             ns2 == [ns1 EXCEPT ![c.cur].next = input.head]
             ns3 == [ns2 EXCEPT ![input.head].prev = c.cur]
         IN IF input.head = None \/ input.tail = None
            THEN [nodes |-> ns, list |-> L, cursor |-> c, input |-> input,
                  dropped |-> NoList, panic |-> TRUE]
            ELSE [nodes |-> ns3,
                  list |-> [L1 EXCEPT !.len = UAdd(L.len, input.len)],
                  cursor |-> c,
                  input |-> Emptied(input),
                  dropped |-> NoList,
                  panic |-> UAddOverflows(L.len, input.len)]
    ELSE IF L.head # None
    THEN IF input.tail = None
         THEN [nodes |-> ns, list |-> L, cursor |-> c, input |-> input,
               dropped |-> NoList, panic |-> TRUE]
         ELSE [nodes |-> [ns EXCEPT ![L.head].prev = input.tail,
                                    ![input.tail].next = L.head],
               list |-> [L EXCEPT !.head = input.head, !.len = UAdd(L.len, input.len)],
               cursor |-> c,
               input |-> Emptied(input),
               dropped |-> NoList,
               panic |-> UAddOverflows(L.len, input.len)]
    ELSE [nodes |-> ns, list |-> input, cursor |-> c, input |-> NoList, dropped |-> L,
          panic |-> FALSE]

\* A splice_after that, prepending at the ghost, leaves head as it was.
SpliceAfter_GhostKeepsHead(ns, L, c, input) ==
    IF is_empty(input)
    THEN [nodes |-> ns, list |-> L, cursor |-> c, input |-> input, dropped |-> NoList,
          panic |-> FALSE]
    ELSE IF c.cur # None
    THEN LET next == ns[c.cur].next
             ns1 == IF next # None
                    THEN [ns EXCEPT ![next].prev = input.tail, ![input.tail].next = next]
                    ELSE ns
             L1 == IF next # None THEN L ELSE [L EXCEPT !.tail = input.tail]
             ns2 == [ns1 EXCEPT ![c.cur].next = input.head]
             ns3 == [ns2 EXCEPT ![input.head].prev = c.cur]
         IN IF input.head = None \/ input.tail = None
            THEN [nodes |-> ns, list |-> L, cursor |-> c, input |-> input,
                  dropped |-> NoList, panic |-> TRUE]
            ELSE [nodes |-> ns3,
                  list |-> [L1 EXCEPT !.len = UAdd(L.len, input.len)],
                  cursor |-> c,
                  input |-> Emptied(input),
                  dropped |-> NoList,
                  panic |-> UAddOverflows(L.len, input.len)]
    ELSE IF L.head # None
    THEN IF input.tail = None
         THEN [nodes |-> ns, list |-> L, cursor |-> c, input |-> input,
               dropped |-> NoList, panic |-> TRUE]
         ELSE [nodes |-> [ns EXCEPT ![L.head].prev = input.tail,
                                    ![input.tail].next = L.head],
               list |-> [L EXCEPT !.len = UAdd(L.len, input.len)],
               cursor |-> c,
               input |-> Emptied(input),
               dropped |-> NoList,
               panic |-> UAddOverflows(L.len, input.len)]
    ELSE [nodes |-> ns, list |-> input, cursor |-> c, input |-> NoList, dropped |-> L,
          panic |-> FALSE]

SpliceAfter(ns, L, c, input) ==
    IF is_empty(input)
    THEN [nodes |-> ns, list |-> L, cursor |-> c, input |-> input, dropped |-> NoList,
          panic |-> FALSE]
    ELSE IF c.cur # None
    THEN LET next == ns[c.cur].next
             ns1 == IF next # None
                    THEN [ns EXCEPT ![next].prev = input.tail, ![input.tail].next = next]
                    ELSE ns
             L1 == IF next # None THEN L ELSE [L EXCEPT !.tail = input.tail]
             ns2 == [ns1 EXCEPT ![c.cur].next = input.head]
             ns3 == [ns2 EXCEPT ![input.head].prev = c.cur]
         IN IF input.head = None \/ input.tail = None
            THEN [nodes |-> ns, list |-> L, cursor |-> c, input |-> input,
                  dropped |-> NoList, panic |-> TRUE]
            ELSE [nodes |-> ns3,
                  list |-> [L1 EXCEPT !.len = UAdd(L.len, input.len)],
                  cursor |-> c,
                  input |-> Emptied(input),
                  dropped |-> NoList,
                  panic |-> UAddOverflows(L.len, input.len)]
    ELSE IF L.head # None
    THEN IF input.tail = None
         THEN [nodes |-> ns, list |-> L, cursor |-> c, input |-> input,
               dropped |-> NoList, panic |-> TRUE]
         ELSE [nodes |-> [ns EXCEPT ![L.head].prev = input.tail,
                                    ![input.tail].next = L.head],
               list |-> [L EXCEPT !.head = input.head, !.len = UAdd(L.len, input.len)],
               cursor |-> c,
               input |-> Emptied(input),
               dropped |-> NoList,
               panic |-> UAddOverflows(L.len, input.len)]
    ELSE [nodes |-> ns, list |-> input, cursor |-> c, input |-> NoList, dropped |-> L,
          panic |-> FALSE]

\* A remove_current that does not move tail off the node it removes.
RemoveCurrent_KeepsTail(ns, L, c) ==
    IF c.cur # None
    THEN LET boxed_node == ns[c.cur]
             ns1 == IF boxed_node.prev # None
                    THEN [ns EXCEPT ![boxed_node.prev].next = boxed_node.next]
                    ELSE ns
             ns2 == IF boxed_node.next # None
                    THEN [ns1 EXCEPT ![boxed_node.next].prev = boxed_node.prev]
                    ELSE ns1
             L1 == IF boxed_node.prev = None THEN [L EXCEPT !.head = boxed_node.next] ELSE L
         IN [nodes |-> [ns2 EXCEPT ![c.cur] = FreeNode],
             list |-> [L1 EXCEPT !.len = USub(L.len, 1)],
             cursor |-> [c EXCEPT !.cur = boxed_node.next,
                                  !.index = IF boxed_node.next = None THEN NoIdx
                                            ELSE c.index],
             ret |-> boxed_node.elem,
             panic |-> USubOverflows(L.len, 1)]
    ELSE [nodes |-> ns, list |-> L, cursor |-> c, ret |-> None, panic |-> FALSE]

\* A remove_current that leaves the successor's prev on the removed node.
RemoveCurrent_SkipsBackLink(ns, L, c) ==
    IF c.cur # None
    THEN LET boxed_node == ns[c.cur]
             ns1 == IF boxed_node.prev # None
                    THEN [ns EXCEPT ![boxed_node.prev].next = boxed_node.next]
                    ELSE ns
             ns2 == ns1
             L1 == IF boxed_node.prev = None THEN [L EXCEPT !.head = boxed_node.next] ELSE L
             L2 == IF boxed_node.next = None THEN [L1 EXCEPT !.tail = boxed_node.prev] ELSE L1
         IN [nodes |-> [ns2 EXCEPT ![c.cur] = FreeNode],
             list |-> [L2 EXCEPT !.len = USub(L.len, 1)],
             cursor |-> [c EXCEPT !.cur = boxed_node.next,
                                  !.index = IF boxed_node.next = None THEN NoIdx
                                            ELSE c.index],
             ret |-> boxed_node.elem,
             panic |-> USubOverflows(L.len, 1)]
    ELSE [nodes |-> ns, list |-> L, cursor |-> c, ret |-> None, panic |-> FALSE]

\* A remove_current that decrements len at the ghost too.
RemoveCurrent_CountsAtGhost(ns, L, c) ==
    IF c.cur # None
    THEN LET boxed_node == ns[c.cur]
             ns1 == IF boxed_node.prev # None
                    THEN [ns EXCEPT ![boxed_node.prev].next = boxed_node.next]
                    ELSE ns
             ns2 == IF boxed_node.next # None
                    THEN [ns1 EXCEPT ![boxed_node.next].prev = boxed_node.prev]
                    ELSE ns1
             L1 == IF boxed_node.prev = None THEN [L EXCEPT !.head = boxed_node.next] ELSE L
             L2 == IF boxed_node.next = None THEN [L1 EXCEPT !.tail = boxed_node.prev] ELSE L1
         IN [nodes |-> [ns2 EXCEPT ![c.cur] = FreeNode],
             list |-> [L2 EXCEPT !.len = USub(L.len, 1)],
             cursor |-> [c EXCEPT !.cur = boxed_node.next,
                                  !.index = IF boxed_node.next = None THEN NoIdx
                                            ELSE c.index],
             ret |-> boxed_node.elem,
             panic |-> USubOverflows(L.len, 1)]
    ELSE [nodes |-> ns, list |-> [L EXCEPT !.len = USub(L.len, 1)], cursor |-> c,
          ret |-> None, panic |-> USubOverflows(L.len, 1)]

RemoveCurrent(ns, L, c) ==
    IF c.cur # None
    THEN LET boxed_node == ns[c.cur]
             ns1 == IF boxed_node.prev # None
                    THEN [ns EXCEPT ![boxed_node.prev].next = boxed_node.next]
                    ELSE ns
             ns2 == IF boxed_node.next # None
                    THEN [ns1 EXCEPT ![boxed_node.next].prev = boxed_node.prev]
                    ELSE ns1
             L1 == IF boxed_node.prev = None THEN [L EXCEPT !.head = boxed_node.next] ELSE L
             L2 == IF boxed_node.next = None THEN [L1 EXCEPT !.tail = boxed_node.prev] ELSE L1
         IN [nodes |-> [ns2 EXCEPT ![c.cur] = FreeNode],
             list |-> [L2 EXCEPT !.len = USub(L.len, 1)],
             cursor |-> [c EXCEPT !.cur = boxed_node.next,
                                  !.index = IF boxed_node.next = None THEN NoIdx
                                            ELSE c.index],
             ret |-> boxed_node.elem,
             panic |-> USubOverflows(L.len, 1)]
    ELSE [nodes |-> ns, list |-> L, cursor |-> c, ret |-> None, panic |-> FALSE]

\* ---------------------------------------------------------------- state
Idle == [op |-> "other", list |-> None, ret |-> None]

\* The state after `LinkedList::new()`, with the calls in w recorded.
InitWatching(w) ==
    /\ nodes = [n \in NodeIds |-> FreeNode]
    /\ lists = [l \in ListIds |-> IF l = 1 THEN new ELSE NoList]
    /\ cursor = NoCursor
    /\ last = Idle
    /\ watch = w
    /\ panicked = FALSE
    /\ ref = <<>>
    /\ log = <<>>
    /\ pushes = 0
    /\ pops = 0
    /\ itr = NoIter
    /\ fifth = FifthNew
    /\ fourth = FourthNew

\* A list the caller may use: it exists and no cursor borrows it.
Usable(l) == ~panicked /\ lists[l].live /\ cursor.list # l
\* The cursor exists.
Borrowed == ~panicked /\ cursor.list # None

\* `last` after the call op on list l that returned ret.
Record(op, l, ret) ==
    /\ last' = IF op \in watch THEN [op |-> op, list |-> l, ret |-> ret] ELSE Idle
    /\ UNCHANGED watch

\* The effect of a LinkedList method on list l, from its result r.
ListCall(op, l, r) ==
    /\ nodes' = r.nodes
    /\ lists' = [lists EXCEPT ![l] = r.list]
    /\ Record(op, l, r.ret)
    /\ panicked' = r.panic
    /\ UNCHANGED cursor

\* The effect of a CursorMut method that returns no list, from its result r.
CursorCall(op, r) ==
    /\ nodes' = r.nodes
    /\ lists' = [lists EXCEPT ![cursor.list] = r.list]
    /\ cursor' = r.cursor
    /\ Record(op, cursor.list, r.ret)
    /\ panicked' = r.panic

\* ------------------------------------------------------- list operations
list_new ==
    /\ ~panicked
    /\ HasFreeSlot(lists)
    /\ lists' = [lists EXCEPT ![FreeSlot(lists)] = new]
    /\ Record("new", FreeSlot(lists), None)
    /\ UNCHANGED <<nodes, cursor, panicked>>

push_front(l, elem) ==
    /\ Usable(l)
    /\ HasFree(nodes)
    /\ ListCall("push_front", l, PushFront(nodes, lists[l], elem))

push_back(l, elem) ==
    /\ Usable(l)
    /\ HasFree(nodes)
    /\ ListCall("push_back", l, PushBack(nodes, lists[l], elem))

pop_front(l) ==
    /\ Usable(l)
    /\ ListCall("pop_front", l, PopFront(nodes, lists[l]))

pop_back(l) ==
    /\ Usable(l)
    /\ ListCall("pop_back", l, PopBack(nodes, lists[l]))

clear(l) ==
    /\ Usable(l)
    /\ ListCall("clear", l, PopAll(nodes, lists[l], MaxNodes + 1))

\* Drop for LinkedList: the list value goes away once its loop has run.
drop(l) ==
    /\ Usable(l)
    /\ LET r == PopAll(nodes, lists[l], MaxNodes + 1)
       IN ListCall("drop", l, [r EXCEPT !.list = NoList])

\* ----------------------------------------------------- cursor operations
cursor_mut(l) ==
    /\ Usable(l)
    /\ cursor.list = None
    /\ cursor' = cursor_mut_at(l)
    /\ Record("cursor_mut", l, None)
    /\ UNCHANGED <<nodes, lists, panicked>>

\* The cursor goes out of scope, ending its borrow of the list.
cursor_end ==
    /\ Borrowed
    /\ cursor' = NoCursor
    /\ Record("cursor_end", cursor.list, None)
    /\ UNCHANGED <<nodes, lists, panicked>>

move_next ==
    /\ Borrowed
    /\ LET r == MoveNext(nodes, lists[cursor.list], cursor)
       IN /\ cursor' = r.cursor
          /\ panicked' = r.panic
    /\ Record("move_next", cursor.list, None)
    /\ UNCHANGED <<nodes, lists>>

move_prev ==
    /\ Borrowed
    /\ LET r == MovePrev(nodes, lists[cursor.list], cursor)
       IN /\ cursor' = r.cursor
          /\ panicked' = r.panic
    /\ Record("move_prev", cursor.list, None)
    /\ UNCHANGED <<nodes, lists>>

\* A split: the list returned is stored in a free list slot, named in ret.
SplitCall(op, r) ==
    LET s == FreeSlot(lists)
    IN /\ nodes' = r.nodes
       /\ lists' = [lists EXCEPT ![cursor.list] = r.list, ![s] = r.out]
       /\ cursor' = r.cursor
       /\ Record(op, cursor.list, s)
       /\ panicked' = r.panic

split_before ==
    /\ Borrowed
    /\ HasFreeSlot(lists)
    /\ SplitCall("split_before", SplitBefore(nodes, lists[cursor.list], cursor))

split_after ==
    /\ Borrowed
    /\ HasFreeSlot(lists)
    /\ SplitCall("split_after", SplitAfter(nodes, lists[cursor.list], cursor))

\* A splice: list i is moved into the call (`last` holds the argument in
\* ret).  What the call leaves in its parameter, and the list value it
\* overwrites, are dropped.
SpliceCall(op, i, r) ==
    LET d1 == PopAll(r.nodes, r.dropped, MaxNodes + 1)
        d2 == PopAll(d1.nodes, r.input, MaxNodes + 1)
    IN /\ Record(op, cursor.list, lists[i])
       /\ cursor' = r.cursor
       /\ lists' = [lists EXCEPT ![cursor.list] = r.list, ![i] = NoList]
       /\ nodes' = d2.nodes
       /\ panicked' = (r.panic \/ d1.panic \/ d2.panic)

splice_before(i) ==
    /\ Borrowed
    /\ Usable(i)
    /\ SpliceCall("splice_before", i,
                  SpliceBefore(nodes, lists[cursor.list], cursor, lists[i]))

splice_after(i) ==
    /\ Borrowed
    /\ Usable(i)
    /\ SpliceCall("splice_after", i,
                  SpliceAfter(nodes, lists[cursor.list], cursor, lists[i]))

remove_current ==
    /\ Borrowed
    /\ CursorCall("remove_current", RemoveCurrent(nodes, lists[cursor.list], cursor))

\* -------------------------------------------------------- specifications
\* Every list and cursor operation, on any list.
Next ==
    \/ list_new /\ UNCHANGED ghost
    \/ \E l \in ListIds, elem \in Values : push_front(l, elem) /\ UNCHANGED ghost
    \/ \E l \in ListIds, elem \in Values : push_back(l, elem) /\ UNCHANGED ghost
    \/ \E l \in ListIds : pop_front(l) /\ UNCHANGED ghost
    \/ \E l \in ListIds : pop_back(l) /\ UNCHANGED ghost
    \/ \E l \in ListIds : clear(l) /\ UNCHANGED ghost
    \/ \E l \in ListIds : drop(l) /\ UNCHANGED ghost
    \/ cursor_mut(1) /\ UNCHANGED ghost
    \/ cursor_end /\ UNCHANGED ghost
    \/ move_next /\ UNCHANGED ghost
    \/ move_prev /\ UNCHANGED ghost
    \/ split_before /\ UNCHANGED ghost
    \/ split_after /\ UNCHANGED ghost
    \/ \E i \in ListIds : splice_before(i) /\ UNCHANGED ghost
    \/ \E i \in ListIds : splice_after(i) /\ UNCHANGED ghost
    \/ remove_current /\ UNCHANGED ghost

\* No call recorded: the lists, the heap and the cursor alone.
Init == InitWatching({})
Spec == Init /\ [][Next]_vars

\* The splits are recorded.
Splits == {"split_before", "split_after"}
InitSplits == InitWatching(Splits)
SpecSplits == InitSplits /\ [][Next]_vars

\* The cursor's creation and its moves forward are recorded.
InitMoveNext == InitWatching({"cursor_mut", "move_next"})
SpecMoveNext == InitMoveNext /\ [][Next]_vars

\* The cursor's moves backward are recorded.
InitMovePrev == InitWatching({"move_prev"})
SpecMovePrev == InitMovePrev /\ [][Next]_vars

\* One list used as a deque, every call recorded, with the reference
\* sequence and the counts of pushes and of pops that returned a value.
Deque == {"push_front", "push_back", "pop_front", "pop_back"}
InitDeque == InitWatching(Deque)

DequePushFront(elem) ==
    /\ pushes < MaxOps
    /\ push_front(1, elem)
    /\ ref' = <<elem>> \o ref
    /\ pushes' = pushes + 1
    /\ UNCHANGED <<log, pops, itr, fifth, fourth>>

DequePushBack(elem) ==
    /\ pushes < MaxOps
    /\ push_back(1, elem)
    /\ ref' = Append(ref, elem)
    /\ pushes' = pushes + 1
    /\ UNCHANGED <<log, pops, itr, fifth, fourth>>

DequePopFront ==
    /\ pop_front(1)
    /\ ref' = IF ref = <<>> THEN ref ELSE Tail(ref)
    /\ pops' = IF PopFront(nodes, lists[1]).ret # None THEN pops + 1 ELSE pops
    /\ UNCHANGED <<log, pushes, itr, fifth, fourth>>

DequePopBack ==
    /\ pop_back(1)
    /\ ref' = IF ref = <<>> THEN ref ELSE SubSeq(ref, 1, Len(ref) - 1)
    /\ pops' = IF PopBack(nodes, lists[1]).ret # None THEN pops + 1 ELSE pops
    /\ UNCHANGED <<log, pushes, itr, fifth, fourth>>

NextDeque ==
    \/ \E elem \in Values : DequePushFront(elem)
    \/ \E elem \in Values : DequePushBack(elem)
    \/ DequePopFront
    \/ DequePopBack

SpecDeque == InitDeque /\ [][NextDeque]_vars

\* One list pushed at one end and popped at the front, with the log of the
\* pushes in call order, each marked once the discipline has popped it.
Unpopped(lg) == {i \in 1..Len(lg) : ~lg[i].popped}
Min(S) == CHOOSE x \in S : \A y \in S : x <= y
Max(S) == CHOOSE x \in S : \A y \in S : x >= y
Mark(lg, i) == [lg EXCEPT ![i].popped = TRUE]

LogPush(elem) ==
    /\ Len(log) < MaxOps
    /\ log' = Append(log, [val |-> elem, popped |-> FALSE])
    /\ UNCHANGED <<ref, pushes, pops, itr, fifth, fourth>>

FifoPush(elem) == push_back(1, elem) /\ LogPush(elem)

FifoPop ==
    /\ pop_front(1)
    /\ log' = IF PopFront(nodes, lists[1]).ret # None /\ Unpopped(log) # {}
              THEN Mark(log, Min(Unpopped(log)))
              ELSE log
    /\ UNCHANGED <<ref, pushes, pops, itr, fifth, fourth>>

NextFifo ==
    \/ \E elem \in Values : FifoPush(elem)
    \/ FifoPop

SpecFifo == InitDeque /\ [][NextFifo]_vars

LifoPush(elem) == push_front(1, elem) /\ LogPush(elem)

LifoPop ==
    /\ pop_front(1)
    /\ log' = IF PopFront(nodes, lists[1]).ret # None /\ Unpopped(log) # {}
              THEN Mark(log, Max(Unpopped(log)))
              ELSE log
    /\ UNCHANGED <<ref, pushes, pops, itr, fifth, fourth>>

NextLifo ==
    \/ \E elem \in Values : LifoPush(elem)
    \/ LifoPop

SpecLifo == InitDeque /\ [][NextLifo]_vars

\* ------------------------------------------------------ reading the heap
\* The nodes met following `next` from node n, n first, for at most k steps.
RECURSIVE FwdChain(_, _, _)
FwdChain(ns, n, k) ==
    IF n = None \/ k = 0 THEN <<>> ELSE <<n>> \o FwdChain(ns, ns[n].next, k - 1)

\* The nodes met following `prev` from node n, n first, for at most k steps.
RECURSIVE BwdChain(_, _, _)
BwdChain(ns, n, k) ==
    IF n = None \/ k = 0 THEN <<>> ELSE <<n>> \o BwdChain(ns, ns[n].prev, k - 1)

Range(q) == {q[i] : i \in 1..Len(q)}
Reverse(q) == [i \in 1..Len(q) |-> q[Len(q) + 1 - i]]

LiveLists == {l \in ListIds : lists[l].live}
FwdNodes(l) == FwdChain(nodes, lists[l].head, MaxNodes + 1)
BwdNodes(l) == BwdChain(nodes, lists[l].tail, MaxNodes + 1)
\* The number of `next` steps from head that reach None (MaxNodes + 1: none does).
FwdSteps(l) == Len(FwdNodes(l))
BwdSteps(l) == Len(BwdNodes(l))

\* ---------------------------------------------------------------- claims

\* C1: the list run beside a reference double-ended sequence. Each
\* pop_front returns the reference's first element and each pop_back its
\* last (absent when it is empty); after every call front() and back() are
\* the reference's first and last element and forward iteration yields the
\* reference sequence.
C1_DequeRefinement ==
    [][
        /\ last'.op = "pop_front" => last'.ret = (IF ref = <<>> THEN None ELSE Head(ref))
        /\ last'.op = "pop_back" => last'.ret = (IF ref = <<>> THEN None ELSE ref[Len(ref)])
        /\ front(nodes', lists'[1]) = (IF ref' = <<>> THEN None ELSE Head(ref'))
        /\ back(nodes', lists'[1]) = (IF ref' = <<>> THEN None ELSE ref'[Len(ref')])
        /\ Collect(nodes', iter(lists'[1]), MaxNodes + 1) = ref'
    ]_vars

\* A pop at the back has returned a value after an earlier pop, and two
\* different elements remain.
C1_Witness ==
    /\ last.op = "pop_back"
    /\ last.ret # None
    /\ pops >= 2
    /\ Len(ref) >= 1
    /\ front(nodes, lists[1]) # back(nodes, lists[1])

\* C2: push_back and pop_front alone make a FIFO queue. Every pop_front
\* returns the oldest pushed element not yet popped, absent if there is none.
C2_Fifo ==
    [][
        last'.op = "pop_front" =>
            last'.ret = (IF Unpopped(log) = {} THEN None ELSE log[Min(Unpopped(log))].val)
    ]_vars

\* push_back 1, 2, 1, then pop_front four times: 1, 2, 1, absent.
C2_Witness ==
    /\ last.op = "pop_front"
    /\ last.ret = None
    /\ Len(log) = 3
    /\ Unpopped(log) = {}
    /\ log[1].val = 1 /\ log[2].val = 2 /\ log[3].val = 1

\* C3: push_front and pop_front alone make a LIFO stack. Every pop_front
\* returns the most recently pushed element not yet popped, absent if there
\* is none.
C3_Lifo ==
    [][
        last'.op = "pop_front" =>
            last'.ret = (IF Unpopped(log) = {} THEN None ELSE log[Max(Unpopped(log))].val)
    ]_vars

\* push_front 1, 2, 2, then pop_front down to the first push: 2, 2, 1.
C3_Witness ==
    /\ last.op = "pop_front"
    /\ last.ret = 1
    /\ Len(log) = 3
    /\ Unpopped(log) = {}
    /\ log[1].val = 1 /\ log[2].val = 2 /\ log[3].val = 2

\* C4: len() is the number of pushes minus the number of pops that returned
\* a value, and is_empty() holds exactly when len() is 0.
C4_LenCountsPushesAndPops ==
    /\ len(lists[1]) = pushes - pops
    /\ is_empty(lists[1]) <=> (len(lists[1]) = 0)
    /\ is_empty(lists[1]) <=> (pushes = pops)

\* Pushes and successful pops have both happened and elements remain.
C4_Witness ==
    /\ last.op \in {"pop_front", "pop_back"}
    /\ last.ret # None
    /\ pushes = 3
    /\ pops = 2
    /\ ~is_empty(lists[1])

\* C5: pop_front and pop_back on an empty list return absent, leave head,
\* tail, len and the heap as they were (absent, absent, 0), and do not panic:
\* len does not underflow.
C5_PopOnEmpty ==
    [][
        (last'.op \in {"pop_front", "pop_back"} /\ is_empty(lists[last'.list])) =>
            /\ last'.ret = None
            /\ ~panicked'
            /\ lists' = lists
            /\ nodes' = nodes
            /\ lists'[last'.list].head = None
            /\ lists'[last'.list].tail = None
            /\ lists'[last'.list].len = 0
    ]_vars

\* A list that was filled and drained has been popped again, at the back.
C5_Witness ==
    /\ last.op = "pop_back"
    /\ last.ret = None
    /\ pushes >= 2
    /\ pops = pushes
    /\ lists[1].len = 0
    /\ ~panicked

\* C6: back-link symmetry. In every live list, after any push, pop, split,
\* splice or remove_current: whenever A.next is B then B.prev is A, whenever
\* B.prev is A then A.next is B, the head has no prev and the tail no next.
C6_BackLinkSymmetry ==
    \A l \in LiveLists :
        /\ \A a \in Range(FwdNodes(l)) \cup Range(BwdNodes(l)) :
            /\ nodes[a].live
            /\ nodes[a].next # None => nodes[nodes[a].next].prev = a
            /\ nodes[a].prev # None => nodes[nodes[a].prev].next = a
        /\ lists[l].head # None => nodes[lists[l].head].prev = None
        /\ lists[l].tail # None => nodes[lists[l].tail].next = None

\* A split has just run, leaving two adjacent nodes in one of the two lists.
C6_Witness ==
    /\ last.op \in Splits
    /\ lists[last.ret].head # None
    /\ lists[1].head # None
    /\ \E l \in LiveLists : FwdSteps(l) >= 2

\* C7: in every live list, len = 0 exactly when head is absent, exactly
\* when tail is absent.
C7_EmptyIffNoHeadNoTail ==
    \A l \in LiveLists :
        /\ (lists[l].len = 0) <=> (lists[l].head = None)
        /\ (lists[l].head = None) <=> (lists[l].tail = None)

\* A split at the ghost has just emptied the cursor's list into a new one.
C7_Witness ==
    /\ last.op \in {"split_before", "split_after"}
    /\ cursor.cur = None
    /\ lists[1].len = 0
    /\ lists[last.ret].len >= 2

\* C8: in every live list the stored len is the number of nodes: `next`
\* from head reaches absent after exactly len steps, and so does `prev`
\* from tail.
C8_LenIsChainLength ==
    \A l \in LiveLists :
        /\ FwdSteps(l) = lists[l].len
        /\ BwdSteps(l) = lists[l].len

\* A split has just divided a list of three nodes into one and two.
C8_Witness ==
    /\ last.op \in {"split_before", "split_after"}
    /\ lists[1].len + lists[last.ret].len = 3
    /\ lists[1].len > 0
    /\ lists[last.ret].len > 0

\* C9: a new cursor is at the ghost. move_next from the ghost goes to the
\* head with index 0 if the list has one and stays at the ghost if not; from
\* a node it goes to that node's successor with index + 1, or to the ghost
\* (index absent) from the tail. It changes neither list nor heap.
C9_MoveNext ==
    [][
        /\ last'.op = "cursor_mut" => cursor'.cur = None /\ cursor'.index = NoIdx
        /\ last'.op = "move_next" =>
            /\ ~panicked'
            /\ lists' = lists
            /\ nodes' = nodes
            /\ cursor'.list = cursor.list
            /\ IF cursor.cur = None
               THEN IF lists[cursor.list].head # None
                    THEN cursor'.cur = lists[cursor.list].head /\ cursor'.index = 0
                    ELSE cursor'.cur = None /\ cursor'.index = NoIdx
               ELSE IF nodes[cursor.cur].next # None
                    THEN /\ cursor'.cur = nodes[cursor.cur].next
                         /\ cursor'.index = cursor.index + 1
                    ELSE cursor'.cur = None /\ cursor'.index = NoIdx
    ]_vars

\* move_next has stepped from the second node to the third, the tail.
C9_Witness ==
    /\ last.op = "move_next"
    /\ cursor.index = 2
    /\ cursor.cur # None
    /\ cursor.cur = lists[cursor.list].tail

\* C10: move_prev from the ghost goes to the tail with index len - 1 if the
\* list has one and stays at the ghost if not; from a node it goes to that
\* node's predecessor with index - 1, or to the ghost (index absent) from the
\* head. The index does not underflow.
C10_MovePrev ==
    [][
        last'.op = "move_prev" =>
            /\ ~panicked'
            /\ lists' = lists
            /\ nodes' = nodes
            /\ cursor'.list = cursor.list
            /\ IF cursor.cur = None
               THEN IF lists[cursor.list].tail # None
                    THEN /\ cursor'.cur = lists[cursor.list].tail
                         /\ cursor'.index = FwdSteps(cursor.list) - 1
                    ELSE cursor'.cur = None /\ cursor'.index = NoIdx
               ELSE IF nodes[cursor.cur].prev # None
                    THEN /\ cursor'.cur = nodes[cursor.cur].prev
                         /\ cursor'.index = cursor.index - 1
                         /\ cursor'.index >= 0
                    ELSE cursor'.cur = None /\ cursor'.index = NoIdx
    ]_vars

\* move_prev has stepped from the tail of three nodes to the second node.
C10_Witness ==
    /\ last.op = "move_prev"
    /\ cursor.index = 1
    /\ cursor.cur # None
    /\ lists[cursor.list].len = 3

\* ------------------------------------------------- more specifications
\* remove_current is recorded.
InitRemove == InitWatching({"remove_current"})
SpecRemove == InitRemove /\ [][Next]_vars

\* splice_before is recorded.
InitSpliceBefore == InitWatching({"splice_before"})
SpecSpliceBefore == InitSpliceBefore /\ [][Next]_vars

\* splice_after is recorded.
InitSpliceAfter == InitWatching({"splice_after"})
SpecSpliceAfter == InitSpliceAfter /\ [][Next]_vars

\* list.iter().collect() of a list value L on the heap ns.
ElemsOf(ns, L) == Collect(ns, iter(L), MaxNodes + 1)
\* The position of node n counted from the head of L, NoIdx if it is not there.
PosOf(ns, L, n) ==
    LET ch == FwdChain(ns, L.head, MaxNodes + 1)
    IN IF \E k \in 1..Len(ch) : ch[k] = n
       THEN (CHOOSE k \in 1..Len(ch) : ch[k] = n) - 1
       ELSE NoIdx

\* C11: cursor ghost symmetry. Whenever the cursor is at the ghost (its node
\* or its index is absent), in any reachable state, current() is absent,
\* index() is absent, peek_next() is the list's front() and peek_prev() is
\* the list's back().
C11_GhostSymmetry ==
    (cursor.list # None /\ (cursor.cur = None \/ index(cursor) = NoIdx)) =>
        LET L == lists[cursor.list]
        IN /\ current(nodes, L, cursor) = None
           /\ index(cursor) = NoIdx
           /\ peek_next(nodes, L, cursor) = front(nodes, L)
           /\ peek_prev(nodes, L, cursor) = back(nodes, L)

\* remove_current has removed the tail, leaving the cursor at the ghost of
\* a list whose front and back differ.
C11_Witness ==
    /\ last.op = "remove_current"
    /\ last.ret # None
    /\ cursor.list # None
    /\ cursor.cur = None
    /\ peek_next(nodes, lists[cursor.list], cursor) # None
    /\ peek_next(nodes, lists[cursor.list], cursor)
         # peek_prev(nodes, lists[cursor.list], cursor)

\* list.iter().rev().collect() of a list value L on the heap ns.
ElemsRevOf(ns, L) == CollectRev(ns, iter(L), MaxNodes + 1)
\* L iterates as the sequence q, forward and backward, and has its length.
Holds(ns, L, q) ==
    /\ L.live
    /\ L.len = Len(q)
    /\ ElemsOf(ns, L) = q
    /\ ElemsRevOf(ns, L) = Reverse(q)

\* C12: split_before with the cursor at node n, index i, of a list
\* e0..e(len-1) returns a list holding e0..e(i-1), of len i (empty when
\* i = 0), leaves the cursor's list holding e(i)..e(len-1) with len reduced
\* by i, and leaves the cursor on n with index 0.
C12_SplitBeforeAt ==
    [][
        (last'.op = "split_before" /\ cursor.cur # None) =>
            LET pre == ElemsOf(nodes, lists[cursor.list])
                i == cursor.index
            IN /\ ~panicked'
               /\ Holds(nodes', lists'[last'.ret], SubSeq(pre, 1, i))
               /\ lists'[last'.ret].len = i
               /\ Holds(nodes', lists'[cursor.list], SubSeq(pre, i + 1, Len(pre)))
               /\ lists'[cursor.list].len = lists[cursor.list].len - i
               /\ cursor'.list = cursor.list
               /\ cursor'.cur = cursor.cur
               /\ cursor'.index = 0
               /\ lists'[cursor.list].head = cursor.cur
               /\ nodes'[cursor.cur].elem = nodes[cursor.cur].elem
    ]_vars

\* split_before at the third of three nodes has returned the first two.
C12_Witness ==
    /\ last.op = "split_before"
    /\ cursor.cur # None
    /\ cursor.index = 0
    /\ lists[last.ret].len = 2
    /\ lists[cursor.list].len = 1

\* C13: split_after with the cursor at node n, index i, of a list
\* e0..e(len-1) returns a list holding e(i+1)..e(len-1), of len len-i-1
\* (empty when n is the tail), leaves the cursor's list holding e0..e(i) with
\* len i+1 and tail n, and leaves the cursor as it was.
C13_SplitAfterAt ==
    [][
        (last'.op = "split_after" /\ cursor.cur # None) =>
            LET pre == ElemsOf(nodes, lists[cursor.list])
                i == cursor.index
            IN /\ ~panicked'
               /\ Holds(nodes', lists'[last'.ret], SubSeq(pre, i + 2, Len(pre)))
               /\ lists'[last'.ret].len = lists[cursor.list].len - i - 1
               /\ Holds(nodes', lists'[cursor.list], SubSeq(pre, 1, i + 1))
               /\ lists'[cursor.list].len = i + 1
               /\ lists'[cursor.list].tail = cursor.cur
               /\ cursor' = cursor
               /\ nodes'[cursor.cur].elem = nodes[cursor.cur].elem
    ]_vars

\* split_after at the first of three nodes has returned the last two.
C13_Witness ==
    /\ last.op = "split_after"
    /\ cursor.cur # None
    /\ cursor.index = 0
    /\ lists[last.ret].len = 2
    /\ lists[cursor.list].len = 1

\* C14: split_before and split_after with the cursor at the ghost both
\* return the whole list (same elements, order and len), leave the cursor's
\* list empty (len 0, head and tail absent) and leave the cursor at the
\* ghost.
C14_SplitAtGhost ==
    [][
        (last'.op \in Splits /\ cursor.cur = None) =>
            LET pre == ElemsOf(nodes, lists[cursor.list])
            IN /\ ~panicked'
               /\ Holds(nodes', lists'[last'.ret], pre)
               /\ lists'[last'.ret].len = lists[cursor.list].len
               /\ lists'[cursor.list].live
               /\ lists'[cursor.list].len = 0
               /\ lists'[cursor.list].head = None
               /\ lists'[cursor.list].tail = None
               /\ cursor'.list = cursor.list
               /\ cursor'.cur = None
               /\ cursor'.index = NoIdx
    ]_vars

\* split_before at the ghost has handed over a list of three elements.
C14_Witness ==
    /\ last.op = "split_before"
    /\ cursor.list # None
    /\ cursor.cur = None
    /\ cursor.index = NoIdx
    /\ lists[cursor.list].len = 0
    /\ lists[last.ret].len = 3
    /\ ElemsOf(nodes, lists[last.ret])[1] # ElemsOf(nodes, lists[last.ret])[3]

\* The nodes of the list value L on the heap ns, walking from its head.
NodesOf(ns, L) == Range(FwdChain(ns, L.head, MaxNodes + 1))

\* C15: splice_before(other) with the cursor at node n, index i, and other
\* non-empty inserts the elements of other, in their order, immediately
\* before n (at the front of the list when n was the head); the cursor stays
\* on n and its index becomes i + other.len.
C15_SpliceBeforeAt ==
    [][
        (last'.op = "splice_before" /\ cursor.cur # None /\ ~is_empty(last'.ret)) =>
            LET pre == ElemsOf(nodes, lists[cursor.list])
                other == ElemsOf(nodes, last'.ret)
                i == cursor.index
            IN /\ ~panicked'
               /\ Holds(nodes', lists'[cursor.list],
                        SubSeq(pre, 1, i) \o other \o SubSeq(pre, i + 1, Len(pre)))
               /\ nodes'[cursor.cur].prev = last'.ret.tail
               /\ (i = 0) => lists'[cursor.list].head = last'.ret.head
               /\ cursor'.list = cursor.list
               /\ cursor'.cur = cursor.cur
               /\ cursor'.index = i + last'.ret.len
               /\ nodes'[cursor.cur].elem = nodes[cursor.cur].elem
    ]_vars

\* Two elements have been spliced in before the head, the cursor is at index 2.
C15_Witness ==
    /\ last.op = "splice_before"
    /\ last.ret.len = 2
    /\ cursor.cur # None
    /\ cursor.index = 2
    /\ lists[cursor.list].len = 3
    /\ lists[cursor.list].head = last.ret.head

\* C16: splice_after(other) with the cursor at node n, index i, and other
\* non-empty inserts the elements of other, in their order, immediately
\* after n (at the back of the list when n was the tail); the cursor stays
\* on n with its index unchanged.
C16_SpliceAfterAt ==
    [][
        (last'.op = "splice_after" /\ cursor.cur # None /\ ~is_empty(last'.ret)) =>
            LET pre == ElemsOf(nodes, lists[cursor.list])
                other == ElemsOf(nodes, last'.ret)
                i == cursor.index
            IN /\ ~panicked'
               /\ Holds(nodes', lists'[cursor.list],
                        SubSeq(pre, 1, i + 1) \o other \o SubSeq(pre, i + 2, Len(pre)))
               /\ nodes'[cursor.cur].next = last'.ret.head
               /\ (i + 1 = Len(pre)) => lists'[cursor.list].tail = last'.ret.tail
               /\ cursor' = cursor
               /\ nodes'[cursor.cur].elem = nodes[cursor.cur].elem
    ]_vars

\* One element has been spliced in after the tail of a list of two.
C16_Witness ==
    /\ last.op = "splice_after"
    /\ last.ret.len = 1
    /\ cursor.cur # None
    /\ cursor.index = 1
    /\ lists[cursor.list].len = 3
    /\ lists[cursor.list].tail = last.ret.tail

\* The step moves list i away, as every splice of list i does.
Consumed(i) == lists[i].live /\ ~lists'[i].live

\* C17: with the cursor at the ghost and other non-empty, splice_before
\* appends the elements of other at the end of the list, splice_after
\* prepends them at the front, an empty list becomes exactly other, and
\* the cursor remains at the ghost.  (A splice_after step is known by
\* `last`, a splice_before step by its action.)
C17_SpliceAtGhost ==
    [][
        \A i \in ListIds :
            (Consumed(i) /\ cursor.cur = None /\ ~is_empty(lists[i])
                 /\ (last'.op = "splice_after" \/ splice_before(i))) =>
                LET pre == ElemsOf(nodes, lists[cursor.list])
                    other == ElemsOf(nodes, lists[i])
                IN /\ ~panicked'
                   /\ Holds(nodes', lists'[cursor.list],
                            IF last'.op = "splice_after" THEN other \o pre
                                                         ELSE pre \o other)
                   /\ is_empty(lists[cursor.list]) =>
                          /\ lists'[cursor.list] = lists[i]
                          /\ nodes' = nodes
                   /\ cursor' = cursor
                   /\ cursor'.cur = None
                   /\ cursor'.index = NoIdx
    ]_vars

\* One element has been prepended at the ghost to a list of two.
C17_Witness ==
    /\ last.op = "splice_after"
    /\ last.ret.len = 1
    /\ cursor.list # None
    /\ cursor.cur = None
    /\ lists[cursor.list].len = 3
    /\ lists[cursor.list].head = last.ret.head
    /\ lists[cursor.list].tail # last.ret.tail

\* What a splice of list i leaves behind, r being what the call computed:
\* an empty argument, the argument's nodes in the cursor's list only, len
\* grown by the argument's len, and every node that was live still live.
Spliced(i, r) ==
    LET mine == NodesOf(nodes', lists'[cursor.list])
    IN /\ ~panicked'
       /\ is_empty(r.input)
       /\ r.input.head = None
       /\ r.input.tail = None
       /\ ~lists'[i].live
       /\ NodesOf(nodes, lists[i]) \subseteq mine
       /\ \A l \in ListIds :
              (l # cursor.list /\ lists'[l].live) => NodesOf(nodes', lists'[l]) \cap mine = {}
       /\ lists'[cursor.list].len = lists[cursor.list].len + lists[i].len
       /\ Cardinality(mine) = lists[cursor.list].len + lists[i].len
       /\ \A n \in NodeIds : nodes[n].live => nodes'[n].live

\* C18: after any splice_before or splice_after, the spliced-in list is
\* empty, its nodes are in the cursor's list and in no other list, the len
\* of the cursor's list has grown by exactly other.len, and dropping the
\* spliced-in list frees no node: every node that was live is still live.
\* (A splice_before step is known by `last`, a splice_after step by its
\* action.)
C18_SpliceMovesOwnership ==
    [][
        \A i \in ListIds :
            Consumed(i) =>
                /\ (last'.op = "splice_before") =>
                       Spliced(i, SpliceBefore(nodes, lists[cursor.list], cursor, lists[i]))
                /\ splice_after(i) =>
                       Spliced(i, SpliceAfter(nodes, lists[cursor.list], cursor, lists[i]))
    ]_vars

\* Two nodes have been spliced into a list of one and are live in it.
C18_Witness ==
    /\ last.op = "splice_before"
    /\ last.ret.len = 2
    /\ lists[cursor.list].len = 3
    /\ NodesOf(nodes, last.ret) \subseteq NodesOf(nodes, lists[cursor.list])
    /\ \A n \in NodesOf(nodes, last.ret) : nodes[n].live

\* C19: remove_current with the cursor at node n, index i, returns the
\* value of n, removes exactly that element (the former neighbours become
\* adjacent, head and tail move off n if n was a boundary node), decrements
\* len by 1, and moves the cursor to the successor of n at index i, or to
\* the ghost with no index if n was the tail.
C19_RemoveCurrentAt ==
    [][
        (last'.op = "remove_current" /\ cursor.cur # None) =>
            LET L == lists[cursor.list]
                pre == ElemsOf(nodes, L)
                i == cursor.index
                n == cursor.cur
                p == nodes[n].prev
                s == nodes[n].next
            IN /\ ~panicked'
               /\ last'.ret = nodes[n].elem
               /\ last'.ret = pre[i + 1]
               /\ Holds(nodes', lists'[cursor.list],
                        SubSeq(pre, 1, i) \o SubSeq(pre, i + 2, Len(pre)))
               /\ lists'[cursor.list].len = L.len - 1
               /\ ~nodes'[n].live
               /\ (p # None) => nodes'[p].next = s
               /\ (s # None) => nodes'[s].prev = p
               /\ lists'[cursor.list].head = IF L.head = n THEN s ELSE L.head
               /\ lists'[cursor.list].tail = IF L.tail = n THEN p ELSE L.tail
               /\ cursor'.list = cursor.list
               /\ cursor'.cur = s
               /\ cursor'.index = IF s = None THEN NoIdx ELSE i
    ]_vars

\* The middle one of three elements has been removed; the cursor is on the
\* former third, now the tail, at index 1.
C19_Witness ==
    /\ last.op = "remove_current"
    /\ last.ret # None
    /\ cursor.cur # None
    /\ cursor.index = 1
    /\ lists[cursor.list].len = 2
    /\ lists[cursor.list].tail = cursor.cur

\* C20: remove_current, current, peek_next and peek_prev never panic; at
\* the ghost remove_current returns absent and changes nothing (nodes,
\* len, head, tail and cursor are as before), and current returns absent.
C20_GhostRemoveIsNoOp ==
    /\ [](cursor.list # None =>
              /\ current(nodes, lists[cursor.list], cursor) \in Values \cup {None}
              /\ peek_next(nodes, lists[cursor.list], cursor) \in Values \cup {None}
              /\ peek_prev(nodes, lists[cursor.list], cursor) \in Values \cup {None}
              /\ ~RemoveCurrent(nodes, lists[cursor.list], cursor).panic
              /\ (cursor.cur = None) => current(nodes, lists[cursor.list], cursor) = None)
    /\ [][
           /\ (last'.op = "remove_current") => ~panicked'
           /\ (last'.op = "remove_current" /\ cursor.cur = None) =>
                  /\ last'.ret = None
                  /\ nodes' = nodes
                  /\ lists' = lists
                  /\ cursor' = cursor
       ]_vars

\* remove_current has returned absent at the ghost of a list of two.
C20_Witness ==
    /\ last.op = "remove_current"
    /\ last.ret = None
    /\ cursor.list # None
    /\ cursor.cur = None
    /\ cursor.index = NoIdx
    /\ lists[cursor.list].len = 2

\* --------------------------------------------- split, then splice back
\* The end of a splice whose result is r: d1 is the drop of the list value
\* it overwrote, d2 the drop of what it left in its parameter.
SpliceEnd(r, d1, d2) ==
    [nodes |-> d2.nodes, list |-> r.list, ret |-> None, cursor |-> r.cursor,
     panic |-> r.panic \/ d1.panic \/ d2.panic]
SpliceDropInput(r, d1) == SpliceEnd(r, d1, PopAll(d1.nodes, r.input, MaxNodes + 1))
SpliceDrops(r) == SpliceDropInput(r, PopAll(r.nodes, r.dropped, MaxNodes + 1))

\* splice_after(R), R being the list that the split_after result s returned.
SpliceBack(s) ==
    IF s.panic
    THEN [nodes |-> s.nodes, list |-> s.list, ret |-> None, cursor |-> s.cursor,
          panic |-> TRUE]
    ELSE SpliceDrops(SpliceAfter(s.nodes, s.list, s.cursor, s.out))

\* `let R = cursor.split_after(); cursor.splice_after(R);`: the two calls
\* one after the other, R being a local that is moved into the second.
SplitAfterSpliceAfter(ns, L, c) == SpliceBack(SplitAfter(ns, L, c))

split_after_splice_after ==
    /\ Borrowed
    /\ CursorCall("split_after_splice_after",
                  SplitAfterSpliceAfter(nodes, lists[cursor.list], cursor))

NextInverse ==
    \/ Next
    \/ split_after_splice_after /\ UNCHANGED ghost

InitInverse == InitWatching({"split_after_splice_after"})
SpecInverse == InitInverse /\ [][NextInverse]_vars

\* C21: split/splice inverse law.  With the cursor at a node of a list,
\* R = cursor.split_after() followed by cursor.splice_after(R) leaves the
\* list with its original element sequence and len, and the cursor on the
\* same node with the same index.
C21_SplitSpliceInverse ==
    [][
        (last'.op = "split_after_splice_after" /\ cursor.cur # None) =>
            /\ ~panicked'
            /\ Holds(nodes', lists'[cursor.list], ElemsOf(nodes, lists[cursor.list]))
            /\ lists'[cursor.list].len = lists[cursor.list].len
            /\ cursor'.list = cursor.list
            /\ cursor'.cur = cursor.cur
            /\ cursor'.index = cursor.index
            /\ \A n \in NodeIds : nodes'[n].live = nodes[n].live
    ]_vars

\* The two calls have run with the cursor on the head of a list of three
\* elements, the last two of which went through R and differ.
C21_Witness ==
    /\ last.op = "split_after_splice_after"
    /\ cursor.cur # None
    /\ cursor.index = 0
    /\ lists[cursor.list].len = 3
    /\ ElemsOf(nodes, lists[cursor.list])[2] # ElemsOf(nodes, lists[cursor.list])[3]

\* C22: in every list reached by pushes, pops and cursor operations,
\* forward iteration collected and then reversed equals reverse iteration
\* collected: the next chain from head and the prev chain from tail visit
\* the same nodes in opposite order.
C22_ForwardReversedIsBackward ==
    \A l \in LiveLists :
        /\ Reverse(Elems(l)) = ElemsRev(l)
        /\ Len(Elems(l)) = lists[l].len
        /\ Reverse(FwdNodes(l)) = BwdNodes(l)

\* Two lists exist, the cursor is inside one of them, which holds two
\* different elements.
C22_Witness ==
    /\ cursor.list # None
    /\ cursor.index = 1
    /\ lists[cursor.list].len = 2
    /\ Elems(cursor.list)[1] # Elems(cursor.list)[2]
    /\ \E l \in LiveLists : l # cursor.list /\ lists[l].len = 1

\* ------------------------------------------------------------ iterators
IterKinds == {"Iter", "IterMut"}

\* list.iter() or list.iter_mut(): the list is borrowed until the iterator
\* is dropped.
iter_new(l, kind) ==
    /\ Usable(l)
    /\ itr.list = None
    /\ itr' = [list |-> l, kind |-> kind,
               state |-> IF kind = "IterMut" THEN iter_mut(lists[l]) ELSE iter(lists[l]),
               fronts |-> 0, backs |-> 0]
    /\ Record(kind, l, None)
    /\ UNCHANGED <<nodes, lists, cursor, panicked, ref, log, pushes, pops, fifth, fourth>>

\* The effect of a call on the iterator whose result is r, which yielded f
\* items from the front and b from the back.
IterCall(op, r, f, b) ==
    /\ itr' = [itr EXCEPT !.state = r.it, !.fronts = @ + f, !.backs = @ + b]
    /\ Record(op, itr.list, r.item)
    /\ UNCHANGED <<nodes, lists, cursor, panicked, ref, log, pushes, pops, fifth, fourth>>

Yielded(r) == IF r.item # None THEN 1 ELSE 0

iter_next ==
    /\ ~panicked
    /\ itr.list # None
    /\ IF itr.kind = "IterMut"
       THEN IterCall("next", IterMutNext(nodes, itr.state),
                     Yielded(IterMutNext(nodes, itr.state)), 0)
       ELSE IterCall("next", IterNext(nodes, itr.state),
                     Yielded(IterNext(nodes, itr.state)), 0)

iter_next_back ==
    /\ ~panicked
    /\ itr.list # None
    /\ IF itr.kind = "IterMut"
       THEN IterCall("next_back", IterMutNextBack(nodes, itr.state),
                     0, Yielded(IterMutNextBack(nodes, itr.state)))
       ELSE IterCall("next_back", IterNextBack(nodes, itr.state),
                     0, Yielded(IterNextBack(nodes, itr.state)))

\* The iterator goes out of scope.
iter_drop ==
    /\ ~panicked
    /\ itr.list # None
    /\ itr' = NoIter
    /\ Record("iter_drop", itr.list, None)
    /\ UNCHANGED <<nodes, lists, cursor, panicked, ref, log, pushes, pops, fifth, fourth>>

\* A list is built and taken down at both ends, and iterated from both
\* ends; while an iterator borrows it the list cannot be changed.
NextIter ==
    \/ \E elem \in Values : itr.list = None /\ push_front(1, elem) /\ UNCHANGED ghost
    \/ \E elem \in Values : itr.list = None /\ push_back(1, elem) /\ UNCHANGED ghost
    \/ itr.list = None /\ pop_front(1) /\ UNCHANGED ghost
    \/ itr.list = None /\ pop_back(1) /\ UNCHANGED ghost
    \/ \E kind \in IterKinds : iter_new(1, kind)
    \/ iter_next
    \/ iter_next_back
    \/ iter_drop

InitIter == InitWatching({"next", "next_back"})
SpecIter == InitIter /\ [][NextIter]_vars

\* C23: for an Iter or IterMut over a list of n elements and any
\* interleaving of next() and next_back(): while fewer than n items have
\* been yielded, next yields the first element not yet yielded from the
\* front and next_back the last not yet yielded from the back (so the first
\* n calls yield every element once and the ends never cross); every later
\* call returns absent and changes nothing; size_hint and len always equal
\* the number of elements not yet yielded.
C23_DoubleEndedIteration ==
    /\ [](itr.list # None =>
              /\ itr.fronts + itr.backs <= lists[itr.list].len
              /\ size_hint(itr.state)
                     = << lists[itr.list].len - itr.fronts - itr.backs,
                          lists[itr.list].len - itr.fronts - itr.backs >>)
    /\ [][
           (last'.op \in {"next", "next_back"}) =>
               LET n == lists[itr.list].len
                   f == itr.fronts
                   b == itr.backs
                   fwd == FwdNodes(itr.list)
               IN /\ Len(fwd) = n
                  /\ IF f + b >= n
                     THEN last'.ret = None /\ itr' = itr
                     ELSE IF last'.op = "next"
                     THEN /\ itr.state.front = fwd[f + 1]
                          /\ last'.ret = nodes[fwd[f + 1]].elem
                          /\ itr'.fronts = f + 1
                          /\ itr'.backs = b
                     ELSE /\ itr.state.back = fwd[n - b]
                          /\ last'.ret = nodes[fwd[n - b]].elem
                          /\ itr'.fronts = f
                          /\ itr'.backs = b + 1
                  /\ UNCHANGED <<nodes, lists>>
       ]_vars

\* An IterMut over three elements has yielded one from the front and two
\* from the back, and the call after that has returned absent.
C23_Witness ==
    /\ itr.kind = "IterMut"
    /\ lists[itr.list].len = 3
    /\ itr.fronts = 1
    /\ itr.backs = 2
    /\ last.op = "next"
    /\ last.ret = None

\* ------------------------------------------- Extend, FromIterator, PartialEq
\* An Extend::extend that pushes each item at the front.
RECURSIVE Extend_PushesFront(_, _, _)
Extend_PushesFront(ns, L, q) ==
    IF q = << >>
    THEN [nodes |-> ns, list |-> L, ret |-> None, panic |-> FALSE]
    ELSE LET r == PushFront(ns, L, Head(q))
         IN IF r.panic THEN r ELSE Extend_PushesFront(r.nodes, r.list, Tail(q))

\* Extend::extend: push_back of each item of q in turn.
RECURSIVE Extend(_, _, _)
Extend(ns, L, q) ==
    IF q = << >>
    THEN [nodes |-> ns, list |-> L, ret |-> None, panic |-> FALSE]
    ELSE LET r == PushBack(ns, L, Head(q))
         IN IF r.panic THEN r ELSE Extend(r.nodes, r.list, Tail(q))

\* FromIterator::from_iter.
FromIter(ns, q) == Extend(ns, new, q)

\* Iterator::eq of two iterators: item by item until one of them ends.
RECURSIVE IterEq(_, _, _, _)
IterEq(ns, a, b, k) ==
    LET x == IterNext(ns, a)
        y == IterNext(ns, b)
    IN IF x.item = None THEN y.item = None
       ELSE IF y.item = None \/ x.item # y.item \/ k = 0 THEN FALSE
       ELSE IterEq(ns, x.it, y.it, k - 1)

\* PartialEq::eq.
eq(ns, A, B) == len(A) = len(B) /\ IterEq(ns, iter(A), iter(B), MaxNodes + 1)

\* The element sequences an iterator can hand over, and the free nodes.
SeqsUpTo(k) == UNION {[1..n -> Values] : n \in 0..k}
FreeCount(ns) == Cardinality({n \in NodeIds : ~ns[n].live})

\* The effect of a call that builds or extends the list in slot l, from
\* its result r; `last` holds arg in ret.
BuildCall(op, on, l, arg, r) ==
    /\ nodes' = r.nodes
    /\ lists' = [lists EXCEPT ![l] = r.list]
    /\ Record(op, on, arg)
    /\ panicked' = r.panic
    /\ UNCHANGED cursor

\* LinkedList::from_iter(q) into a free list slot (`last` holds q in ret).
from_iter(q) ==
    /\ ~panicked
    /\ HasFreeSlot(lists)
    /\ Len(q) <= FreeCount(nodes)
    /\ BuildCall("from_iter", FreeSlot(lists), FreeSlot(lists), q, FromIter(nodes, q))

\* list.extend(q) (`last` holds q in ret).
extend(l, q) ==
    /\ Usable(l)
    /\ Len(q) <= FreeCount(nodes)
    /\ BuildCall("extend", l, l, q, Extend(nodes, lists[l], q))

\* LinkedList::from_iter(list.iter().cloned()): list l is iterated and a
\* list is built from what it yields (`last` names the new list in ret).
rebuild(l) ==
    /\ Usable(l)
    /\ HasFreeSlot(lists)
    /\ lists[l].len <= FreeCount(nodes)
    /\ BuildCall("rebuild", l, FreeSlot(lists), FreeSlot(lists), FromIter(nodes, Elems(l)))

\* Lists are built from sequences, dropped and rebuilt; the list in slot 1
\* is the one that is extended.
NextRoundTrip ==
    \/ \E l \in ListIds : drop(l) /\ UNCHANGED ghost
    \/ \E q \in SeqsUpTo(FreeCount(nodes)) : from_iter(q) /\ UNCHANGED ghost
    \/ \E q \in SeqsUpTo(FreeCount(nodes)) : extend(1, q) /\ UNCHANGED ghost
    \/ \E l \in ListIds : rebuild(l) /\ UNCHANGED ghost

InitRoundTrip == InitWatching({"from_iter", "extend", "rebuild"})
SpecRoundTrip == InitRoundTrip /\ [][NextRoundTrip]_vars

-----------------------------------------------------------------------------
\* Drop of a list whose elements have destructors that can panic.

\* Drop::drop, `while self.pop_front().is_some() {}`, for elements of which
\* those in P have a destructor that panics.  pop_front frees the head node
\* and hands its element over; the element is destroyed when the loop
\* condition ends.  A panic there unwinds out of drop, and the fields of the
\* list (head and tail, raw pointers) free nothing.  `ret` is the sequence
\* of the nodes that were freed, in the order they were freed.
RECURSIVE DropUnwinding(_, _, _, _)
DropUnwinding(ns, L, P, freed) ==
    LET r == PopFront(ns, L)
    IN IF r.ret = None \/ r.panic
       THEN [nodes |-> r.nodes, list |-> r.list, ret |-> freed, panic |-> r.panic]
       ELSE IF r.ret \in P
       THEN [nodes |-> r.nodes, list |-> r.list,
             ret |-> Append(freed, L.head), panic |-> TRUE]
       ELSE DropUnwinding(r.nodes, r.list, P, Append(freed, L.head))

\* The list in slot l goes out of scope (`last` holds the freed nodes in
\* ret).
drop_unwinding(l, P) ==
    /\ Usable(l)
    /\ LET r == DropUnwinding(nodes, lists[l], P, << >>)
       IN ListCall("drop", l, [r EXCEPT !.list = NoList])

\* Lists are made, filled at both ends, popped and dropped.
NextDropUnwinding ==
    \/ list_new /\ UNCHANGED ghost
    \/ \E l \in ListIds, elem \in Values : push_front(l, elem) /\ UNCHANGED ghost
    \/ \E l \in ListIds, elem \in Values : push_back(l, elem) /\ UNCHANGED ghost
    \/ \E l \in ListIds : pop_front(l) /\ UNCHANGED ghost
    \/ \E l \in ListIds, P \in SUBSET Values : drop_unwinding(l, P) /\ UNCHANGED ghost

InitDropUnwinding == InitWatching({"drop"})
SpecDropUnwinding == InitDropUnwinding /\ [][NextDropUnwinding]_vars

\* C25: dropping a list destroys every node it owns exactly once, from the
\* front to the back, whether or not the destructor of an element panics:
\* the nodes freed by the drop are the nodes of the list in list order, and
\* none of them is live afterwards.
C25_DropDestroysEveryNode ==
    [][
        (last'.op = "drop") =>
            /\ last'.ret = FwdChain(nodes, lists[last'.list].head, MaxNodes + 1)
            /\ \A n \in NodesOf(nodes, lists[last'.list]) : ~nodes'[n].live
    ]_vars

\* A drop has unwound after it freed the first node of a list: a node is
\* live that no list owns.
C25_Witness ==
    /\ last.op = "drop"
    /\ panicked
    /\ Len(last.ret) = 1
    /\ \E n \in NodeIds :
           /\ nodes[n].live
           /\ \A l \in LiveLists : n \notin NodesOf(nodes, lists[l])

-----------------------------------------------------------------------------
\* A cursor taken on an empty list.

\* After `let mut list = LinkedList::new(); let mut cursor =
\* list.cursor_mut();`.
InitEmptyCursor ==
    /\ nodes = [n \in NodeIds |-> FreeNode]
    /\ lists = [l \in ListIds |-> IF l = 1 THEN new ELSE NoList]
    /\ cursor = cursor_mut_at(1)
    /\ last = Idle
    /\ watch = {"move_next", "move_prev"}
    /\ panicked = FALSE
    /\ ref = <<>>
    /\ log = <<>>
    /\ pushes = 0
    /\ pops = 0
    /\ itr = NoIter
    /\ fifth = FifthNew
    /\ fourth = FourthNew

\* The cursor stays alive: every cursor operation, and the calls on other
\* lists that make the lists it is handed and drop the lists it returns.
NextEmptyCursor ==
    \/ list_new /\ UNCHANGED ghost
    \/ \E l \in ListIds, elem \in Values : push_back(l, elem) /\ UNCHANGED ghost
    \/ \E l \in ListIds : drop(l) /\ UNCHANGED ghost
    \/ move_next /\ UNCHANGED ghost
    \/ move_prev /\ UNCHANGED ghost
    \/ split_before /\ UNCHANGED ghost
    \/ split_after /\ UNCHANGED ghost
    \/ \E i \in ListIds : splice_before(i) /\ UNCHANGED ghost
    \/ \E i \in ListIds : splice_after(i) /\ UNCHANGED ghost
    \/ remove_current /\ UNCHANGED ghost

SpecEmptyCursor == InitEmptyCursor /\ [][NextEmptyCursor]_vars

\* C26 as stated: a cursor obtained from an empty list is at Ghost (current
\* absent, index absent) after any sequence of cursor operations.
C26_PermanentlyAtGhost ==
    cursor.cur = None /\ cursor.index = NoIdx

\* C26: a cursor is at Ghost (current absent, index absent) whenever its
\* list is empty: no cursor operation takes it off Ghost as long as the list
\* holds no element.
C26_AtGhostWhileEmpty ==
    is_empty(lists[cursor.list]) => cursor.cur = None /\ cursor.index = NoIdx

\* The cursor has just moved on its empty list.
C26_Witness ==
    /\ last.op \in {"move_next", "move_prev"}
    /\ is_empty(lists[cursor.list])
    /\ lists[cursor.list].head = None
    /\ cursor.cur = None
    /\ cursor.index = NoIdx

-----------------------------------------------------------------------------
\* C27: cursor position.  In every state with a cursor alive, either the
\* cursor is at Ghost with index absent, or its current node is a live node
\* of the cursor's own list and of no other list, index is that node's
\* 0-based position counted from the head, and index < len.
C27_CursorPosition ==
    cursor.list # None =>
        \/ cursor.cur = None /\ cursor.index = NoIdx
        \/ /\ cursor.cur # None
           /\ nodes[cursor.cur].live
           /\ cursor.cur \in NodesOf(nodes, lists[cursor.list])
           /\ cursor.index = PosOf(nodes, lists[cursor.list], cursor.cur)
           /\ cursor.index >= 0
           /\ cursor.index < lists[cursor.list].len
           /\ \A l \in LiveLists \ {cursor.list} :
                  cursor.cur \notin NodesOf(nodes, lists[l])

\* split_before has handed the node before the cursor to the list it
\* returned; the cursor is on the first of the two nodes that remain.
C27_Witness ==
    /\ last.op = "split_before"
    /\ cursor.cur = lists[cursor.list].head
    /\ cursor.cur # lists[cursor.list].tail
    /\ cursor.index = 0
    /\ lists[last.ret].len = 1
    /\ cursor.cur \notin NodesOf(nodes, lists[last.ret])

-----------------------------------------------------------------------------
\* C28: in every state, a live list has len = 1 exactly when its head and
\* its tail reference the same node.
C28_SingleNodeIffHeadIsTail ==
    \A l \in LiveLists :
        (lists[l].len = 1) <=> (lists[l].head # None /\ lists[l].head = lists[l].tail)

\* remove_current has removed the first of two nodes: the cursor is on the
\* single node that is left, which is both head and tail.
C28_Witness ==
    /\ last.op = "remove_current"
    /\ last.ret # None
    /\ lists[cursor.list].len = 1
    /\ lists[cursor.list].head = lists[cursor.list].tail
    /\ cursor.cur = lists[cursor.list].head
    /\ cursor.cur # None

-----------------------------------------------------------------------------
\* The cursor moved round its list.

\* The results of k calls of move_next in a row, from cursor c.
RECURSIVE MoveNextTimes(_, _, _, _)
MoveNextTimes(ns, L, c, k) ==
    IF k = 0 THEN << >>
    ELSE LET r == MoveNext(ns, L, c)
         IN <<r>> \o MoveNextTimes(ns, L, r.cursor, k - 1)

\* The results of k calls of move_prev in a row, from cursor c.
RECURSIVE MovePrevTimes(_, _, _, _)
MovePrevTimes(ns, L, c, k) ==
    IF k = 0 THEN << >>
    ELSE LET r == MovePrev(ns, L, c)
         IN <<r>> \o MovePrevTimes(ns, L, r.cursor, k - 1)

\* The states of a cursor c of list L: Ghost, and At(node, i) for the i-th
\* node from the head.
CursorStates(ns, L, c) ==
    {[c EXCEPT !.cur = None, !.index = NoIdx]}
        \cup {[c EXCEPT !.cur = n, !.index = PosOf(ns, L, n)] : n \in NodesOf(ns, L)}

\* o is one full round from cursor c: no call panics, the last one is back
\* at c and none before it is, and the calls visit every state in all.
FullRound(o, c, all) ==
    /\ \A k \in 1..Len(o) : ~o[k].panic
    /\ o[Len(o)].cursor = c
    /\ \A k \in 1..(Len(o) - 1) : o[k].cursor # c
    /\ {o[k].cursor : k \in 1..Len(o)} = all

\* Both ways round list L from cursor c, whose states are all.
Circular(ns, L, c, all) ==
    /\ Cardinality(all) = L.len + 1
    /\ FullRound(MoveNextTimes(ns, L, c, L.len + 1), c, all)
    /\ FullRound(MovePrevTimes(ns, L, c, L.len + 1), c, all)

\* C29: the cursor has no terminal state.  On a non-empty list of length
\* len, from every cursor state, len + 1 calls of move_next in a row, and
\* len + 1 calls of move_prev in a row, visit Ghost and every At(node, i)
\* and are back at the starting state after exactly len + 1 calls.
C29_CursorIsCircular ==
    (cursor.list # None /\ ~panicked /\ ~is_empty(lists[cursor.list])) =>
        Circular(nodes, lists[cursor.list], cursor,
                 CursorStates(nodes, lists[cursor.list], cursor))

\* move_next has taken the cursor from the tail of a list of three onto
\* Ghost.
C29_Witness ==
    /\ last.op = "move_next"
    /\ cursor.cur = None
    /\ cursor.index = NoIdx
    /\ lists[cursor.list].len = 3

-----------------------------------------------------------------------------
\* C30: splice_before and splice_after of an empty list do nothing, wherever
\* the cursor is and whether or not its list is empty: the list of the
\* cursor (head, tail, len), its nodes and elements, and the cursor's node
\* and index are what they were, and the call does not panic.
C30_SpliceOfEmptyIsNoOp ==
    [][
        \A i \in ListIds :
            (/\ Consumed(i)
             /\ is_empty(lists[i])
             /\ (last'.op = "splice_before" \/ splice_after(i))) =>
                /\ ~panicked'
                /\ lists'[cursor.list] = lists[cursor.list]
                /\ nodes' = nodes
                /\ ElemsOf(nodes', lists'[cursor.list]) = ElemsOf(nodes, lists[cursor.list])
                /\ cursor' = cursor
    ]_vars

\* An empty list has been spliced in before the second of two elements.
C30_Witness ==
    /\ last.op = "splice_before"
    /\ last.ret.live
    /\ is_empty(last.ret)
    /\ cursor.cur # None
    /\ cursor.index = 1
    /\ lists[cursor.list].len = 2

-----------------------------------------------------------------------------
\* The links a splice writes.

\* The fields of node n that the step changes.
Changed(n) ==
    {f \in {"prev", "next", "elem", "live"} : nodes'[n][f] # nodes[n][f]}

\* A step that injects the nodes inp (first node h, last node t) into the
\* list whose nodes were tgt writes boundary links only.
BoundaryLinksOnly(inp, h, t, tgt) ==
    /\ ~panicked'
    /\ \A n \in NodeIds : nodes'[n].live = nodes[n].live
    /\ \A n \in NodeIds : nodes'[n].elem = nodes[n].elem
    /\ \A n \in NodeIds \ (inp \cup tgt) : nodes'[n] = nodes[n]
    /\ \A n \in inp :
           /\ (n # h) => nodes'[n].prev = nodes[n].prev
           /\ (n # t) => nodes'[n].next = nodes[n].next
    /\ Cardinality({n \in tgt : Changed(n) # {}}) <= 2
    /\ \A n \in tgt :
           /\ Cardinality(Changed(n)) <= 1
           /\ ("next" \in Changed(n)) => (nodes'[n].next = h /\ nodes'[h].prev = n)
           /\ ("prev" \in Changed(n)) => (nodes'[n].prev = t /\ nodes'[t].next = n)
    /\ NodesOf(nodes', lists'[cursor.list]) = inp \cup tgt

\* C31: a splice re-points boundary links only.  A splice_before or
\* splice_after of a non-empty list changes at most the prev of the injected
\* list's first node, the next of its last node, and one link of each of the
\* at most two nodes of the target next to the insertion point; every link
\* between two nodes of the injected list and every other link of the
\* target is unchanged, and no node is allocated, freed or copied.
C31_SpliceRepointsBoundaryLinks ==
    [][
        \A i \in ListIds :
            (/\ Consumed(i)
             /\ ~is_empty(lists[i])
             /\ (last'.op = "splice_after" \/ splice_before(i))) =>
                BoundaryLinksOnly(NodesOf(nodes, lists[i]), lists[i].head, lists[i].tail,
                                  NodesOf(nodes, lists[cursor.list]))
    ]_vars

\* A list of two nodes has been spliced in after the cursor, which is on
\* the only node the list had: the link between the two nodes is the one it
\* was.
C31_Witness ==
    /\ last.op = "splice_after"
    /\ last.ret.len = 2
    /\ cursor.cur # None
    /\ cursor.cur = lists[cursor.list].head
    /\ lists[cursor.list].len = 3
    /\ lists[cursor.list].tail = last.ret.tail
    /\ nodes[last.ret.head].next = last.ret.tail
    /\ nodes[last.ret.tail].prev = last.ret.head
    /\ nodes[last.ret.head].prev = cursor.cur

-----------------------------------------------------------------------------
\* Calls of peek_next and peek_prev.

\* cursor.peek_next(): reads the node after the cursor and writes nothing
\* (`last` holds the element in ret).
peek_next_call ==
    /\ Borrowed
    /\ Record("peek_next", cursor.list, peek_next(nodes, lists[cursor.list], cursor))
    /\ UNCHANGED <<nodes, lists, cursor, panicked>>

\* cursor.peek_prev(): reads the node before the cursor and writes nothing
\* (`last` holds the element in ret).
peek_prev_call ==
    /\ Borrowed
    /\ Record("peek_prev", cursor.list, peek_prev(nodes, lists[cursor.list], cursor))
    /\ UNCHANGED <<nodes, lists, cursor, panicked>>

NextPeek ==
    \/ Next
    \/ peek_next_call /\ UNCHANGED ghost
    \/ peek_prev_call /\ UNCHANGED ghost

InitPeek == InitWatching({"peek_next", "peek_prev"})
SpecPeek == InitPeek /\ [][NextPeek]_vars

\* The element at 0-based position k of q, None outside q.
ElemAt(q, k) == IF k >= 0 /\ k < Len(q) THEN q[k + 1] ELSE None

\* C32: with the cursor at At(n, i), peek_next returns the element after n
\* in list order, absent if n is the tail (it does not wrap to the head), and
\* peek_prev returns the element before n, absent if n is the head (it does
\* not wrap to the tail); neither call moves the cursor or changes the list.
C32_PeekAtNode ==
    [][
        (last'.op \in {"peek_next", "peek_prev"} /\ cursor.cur # None) =>
            /\ (last'.op = "peek_next") =>
                   /\ last'.ret = ElemAt(ElemsOf(nodes, lists[cursor.list]),
                                         cursor.index + 1)
                   /\ (last'.ret = None) <=> (cursor.cur = lists[cursor.list].tail)
            /\ (last'.op = "peek_prev") =>
                   /\ last'.ret = ElemAt(ElemsOf(nodes, lists[cursor.list]),
                                         cursor.index - 1)
                   /\ (last'.ret = None) <=> (cursor.cur = lists[cursor.list].head)
            /\ ~panicked'
            /\ cursor' = cursor
            /\ lists' = lists
            /\ nodes' = nodes
    ]_vars

\* peek_next has found nothing after the tail of a list whose head holds a
\* different element than its tail.
C32_Witness ==
    /\ last.op = "peek_next"
    /\ last.ret = None
    /\ cursor.cur # None
    /\ cursor.cur = lists[cursor.list].tail
    /\ cursor.index = 1
    /\ lists[cursor.list].len = 2
    /\ nodes[lists[cursor.list].head].elem # nodes[cursor.cur].elem

-----------------------------------------------------------------------------
\* fifth.rs: the singly-linked queue with a raw tail pointer.

\* The pop_front calls a run makes at most.
MaxPops == 3

\* A pop_front that leaves tail alone when the list becomes empty.
FifthPopFront_KeepsTail(Q) ==
    IF Q.head = None
    THEN [list |-> Q, ret |-> None]
    ELSE LET head == Q.nodes[Q.head]
         IN [list |-> [Q EXCEPT !.nodes = [@ EXCEPT ![Q.head] = FifthFree],
                                !.head = head.next,
                                !.stale = @ \/ ~head.live],
             ret |-> head.elem]

\* List::push_back, the Box allocated in the lowest free slot.
FifthPushBack(Q, elem) ==
    LET new_tail == CHOOSE n \in NodeIds :
                        ~Q.nodes[n].live /\ \A m \in NodeIds : ~Q.nodes[m].live => n <= m
        ns == [Q.nodes EXCEPT ![new_tail] = [elem |-> elem, next |-> None, live |-> TRUE]]
    IN IF Q.tail = None
       THEN [Q EXCEPT !.nodes = ns, !.head = new_tail, !.tail = new_tail]
       ELSE [Q EXCEPT !.nodes = [ns EXCEPT ![Q.tail].next = new_tail],
                      !.tail = new_tail,
                      !.stale = @ \/ ~Q.nodes[Q.tail].live]

\* List::pop_front.
FifthPopFront(Q) ==
    IF Q.head = None
    THEN [list |-> Q, ret |-> None]
    ELSE LET head == Q.nodes[Q.head]
         IN [list |-> [Q EXCEPT !.nodes = [@ EXCEPT ![Q.head] = FifthFree],
                                !.head = head.next,
                                !.tail = IF head.next = None THEN None ELSE @,
                                !.stale = @ \/ ~head.live],
             ret |-> head.elem]

\* The elements reached from node n by at most k next links.
RECURSIVE FifthChain(_, _, _)
FifthChain(ns, n, k) ==
    IF n = None \/ k = 0 THEN << >>
    ELSE <<ns[n].elem>> \o FifthChain(ns, ns[n].next, k - 1)

\* list.push_back(elem); ref is the queue of the elements pushed and not
\* yet popped.
fifth_push_back(elem) ==
    /\ \E n \in NodeIds : ~fifth.nodes[n].live
    /\ fifth' = FifthPushBack(fifth, elem)
    /\ ref' = Append(ref, elem)
    /\ Record("push_back", None, None)
    /\ UNCHANGED <<nodes, lists, cursor, panicked, log, pushes, pops, itr, fourth>>

\* list.pop_front() (`last` holds what it returned in ret, and so does the
\* end of log).
fifth_pop_front ==
    /\ Len(log) < MaxPops
    /\ fifth' = FifthPopFront(fifth).list
    /\ ref' = IF ref = << >> THEN ref ELSE Tail(ref)
    /\ log' = Append(log, FifthPopFront(fifth).ret)
    /\ Record("pop_front", None, FifthPopFront(fifth).ret)
    /\ UNCHANGED <<nodes, lists, cursor, panicked, pushes, pops, itr, fourth>>

NextFifth ==
    \/ \E elem \in Values : fifth_push_back(elem)
    \/ fifth_pop_front

InitFifth == InitWatching({"pop_front"})
SpecFifth == InitFifth /\ [][NextFifth]_vars

\* C33: in the queue of fifth.rs, after any sequence of push_back and
\* pop_front, tail is null exactly when head is null, no node is accessed
\* after it was freed, the nodes linked from head hold the elements pushed
\* and not yet popped in push order, and every pop_front returns the oldest
\* of them, or nothing when there is none.
C33_FifthQueueIsFifo ==
    /\ [](/\ (fifth.tail = None) <=> (fifth.head = None)
          /\ ~fifth.stale
          /\ FifthChain(fifth.nodes, fifth.head, MaxNodes + 1) = ref
          /\ fifth.tail # None =>
                 (fifth.nodes[fifth.tail].live /\ fifth.nodes[fifth.tail].next = None))
    /\ [][
           (last'.op = "pop_front") =>
               last'.ret = IF ref = << >> THEN None ELSE Head(ref)
       ]_vars

\* The queue was drained (a pop_front found it empty), and the element
\* pushed after that has been popped.
C33_Witness ==
    /\ last.op = "pop_front"
    /\ Len(log) = 3
    /\ log[1] # None
    /\ log[2] = None
    /\ log[3] # None
    /\ log[3] # log[1]
    /\ last.ret = log[3]

-----------------------------------------------------------------------------
\* fourth.rs: the deque of Rc<RefCell<Node>>.  A node's `strong` is the
\* number of Rc handles to it (links of its neighbours, head and tail of the
\* list, locals of the running call); the node is freed when it drops to 0.

\* Node::new in the lowest free slot: one handle, the local new_node.
FourthAlloc(ns) ==
    CHOOSE n \in NodeIds : ns[n].strong = 0 /\ \A m \in NodeIds : ns[m].strong = 0 => n <= m

\* Drop of one Rc handle to node n (None: of an empty Link).  The last
\* handle frees the node and drops its two links.
RECURSIVE Release(_, _)
Release(ns, n) ==
    IF n = None THEN ns
    ELSE IF ns[n].strong > 1 THEN [ns EXCEPT ![n].strong = @ - 1]
    ELSE Release(Release([ns EXCEPT ![n] = FourthFree], ns[n].next), ns[n].prev)

\* Rc::try_unwrap(node).ok().unwrap().into_inner().elem with the list
\* fields head and tail as given: with one handle left the node is taken
\* apart and its element returned, otherwise the handle is dropped and the
\* unwrap panics.  `strong` is the count that try_unwrap found.
TryUnwrap(ns, node, head, tail) ==
    IF ns[node].strong = 1
    THEN [list |-> [nodes |-> Release(Release([ns EXCEPT ![node] = FourthFree],
                                              ns[node].next), ns[node].prev),
                    head |-> head, tail |-> tail],
          ret |-> ns[node].elem, panic |-> FALSE, strong |-> 1]
    ELSE [list |-> [nodes |-> Release(ns, node), head |-> head, tail |-> tail],
          ret |-> None, panic |-> TRUE, strong |-> ns[node].strong]

\* A call that panics before it changes anything (BorrowMutError).
FourthPanics(F) == [list |-> F, ret |-> None, panic |-> TRUE, strong |-> 0]

\* List::push_front.
FourthPushFront(F, elem) ==
    LET new_node == FourthAlloc(F.nodes)
        ns == [F.nodes EXCEPT ![new_node] =
                   [elem |-> elem, next |-> None, prev |-> None, strong |-> 1]]
        old_head == F.head
    IN IF old_head # None
       THEN [nodes |-> [Release(ns, ns[old_head].prev)
                            EXCEPT ![old_head].prev = new_node,
                                   ![new_node].strong = 2,
                                   ![new_node].next = old_head],
             head |-> new_node, tail |-> F.tail]
       ELSE [nodes |-> [Release(ns, F.tail) EXCEPT ![new_node].strong = 2],
             head |-> new_node, tail |-> new_node]

\* List::push_back.
FourthPushBack(F, elem) ==
    LET new_node == FourthAlloc(F.nodes)
        ns == [F.nodes EXCEPT ![new_node] =
                   [elem |-> elem, next |-> None, prev |-> None, strong |-> 1]]
        old_tail == F.tail
    IN IF old_tail # None
       THEN [nodes |-> [Release(ns, ns[old_tail].next)
                            EXCEPT ![old_tail].next = new_node,
                                   ![new_node].strong = 2,
                                   ![new_node].prev = old_tail],
             head |-> F.head, tail |-> new_node]
       ELSE [nodes |-> [Release(ns, F.head) EXCEPT ![new_node].strong = 2],
             head |-> new_node, tail |-> new_node]

\* A pop_front that leaves the tail handle in place when it pops the only
\* node.
FourthPopFront_KeepsTail(F) ==
    IF F.head = None
    THEN [list |-> F, ret |-> None, panic |-> FALSE, strong |-> 0]
    ELSE LET old_head == F.head
             new_head == F.nodes[old_head].next
             ns == [F.nodes EXCEPT ![old_head].next = None]
         IN IF new_head = old_head THEN FourthPanics(F)
            ELSE IF new_head # None
            THEN TryUnwrap(Release([ns EXCEPT ![new_head].prev = None], ns[new_head].prev),
                           old_head, new_head, F.tail)
            ELSE TryUnwrap(ns, old_head, None, F.tail)

\* List::pop_front.
FourthPopFront(F) ==
    IF F.head = None
    THEN [list |-> F, ret |-> None, panic |-> FALSE, strong |-> 0]
    ELSE LET old_head == F.head
             new_head == F.nodes[old_head].next
             ns == [F.nodes EXCEPT ![old_head].next = None]
         IN IF new_head = old_head THEN FourthPanics(F)
            ELSE IF new_head # None
            THEN TryUnwrap(Release([ns EXCEPT ![new_head].prev = None], ns[new_head].prev),
                           old_head, new_head, F.tail)
            ELSE TryUnwrap(Release(ns, F.tail), old_head, None, None)

\* List::pop_back.
FourthPopBack(F) ==
    IF F.tail = None
    THEN [list |-> F, ret |-> None, panic |-> FALSE, strong |-> 0]
    ELSE LET old_tail == F.tail
             new_tail == F.nodes[old_tail].prev
             ns == [F.nodes EXCEPT ![old_tail].prev = None]
         IN IF new_tail = old_tail THEN FourthPanics(F)
            ELSE IF new_tail # None
            THEN TryUnwrap(Release([ns EXCEPT ![new_tail].next = None], ns[new_tail].next),
                           old_tail, F.head, new_tail)
            ELSE TryUnwrap(Release(ns, F.head), old_tail, None, None)

\* A call on the deque that returns ret.
FourthCall(op, F, ret, panic) ==
    /\ ~panicked
    /\ fourth' = F
    /\ panicked' = panic
    /\ Record(op, None, ret)
    /\ UNCHANGED <<nodes, lists, cursor, ref, log, pushes, pops, itr, fifth>>

fourth_push_front(elem) ==
    /\ \E n \in NodeIds : fourth.nodes[n].strong = 0
    /\ FourthCall("push_front", FourthPushFront(fourth, elem), None, FALSE)

fourth_push_back(elem) ==
    /\ \E n \in NodeIds : fourth.nodes[n].strong = 0
    /\ FourthCall("push_back", FourthPushBack(fourth, elem), None, FALSE)

fourth_pop_front ==
    FourthCall("pop_front", FourthPopFront(fourth).list, FourthPopFront(fourth).ret,
               FourthPopFront(fourth).panic)

fourth_pop_back ==
    FourthCall("pop_back", FourthPopBack(fourth).list, FourthPopBack(fourth).ret,
               FourthPopBack(fourth).panic)

NextFourth ==
    \/ \E elem \in Values : fourth_push_front(elem)
    \/ \E elem \in Values : fourth_push_back(elem)
    \/ fourth_pop_front
    \/ fourth_pop_back

InitFourth == InitWatching({"pop_front", "pop_back"})
SpecFourth == InitFourth /\ [][NextFourth]_vars

\* The handles to node n held by the list and by the nodes.
Handles(F, n) ==
    Cardinality({m \in NodeIds : F.nodes[m].next = n})
        + Cardinality({m \in NodeIds : F.nodes[m].prev = n})
        + (IF F.head = n THEN 1 ELSE 0) + (IF F.tail = n THEN 1 ELSE 0)

\* The node a pop takes, and what the pop found and did.
Popped == IF last'.op = "pop_front" THEN fourth.head ELSE fourth.tail
PopResult == IF last'.op = "pop_front" THEN FourthPopFront(fourth) ELSE FourthPopBack(fourth)

\* C34: in the deque of fourth.rs, pop_front and pop_back never panic after
\* any sequence of push_front, push_back, pop_front and pop_back.  Between
\* calls every node has as many strong references as there are links and
\* list handles to it; when a pop unwraps a node exactly one is left, the
\* node is freed, and no link and no handle of the list names it any more,
\* also when it was the only node.
C34_PopsNeverPanic ==
    /\ [](/\ ~panicked
          /\ \A n \in NodeIds : fourth.nodes[n].strong = Handles(fourth, n))
    /\ [][
           (last'.op \in {"pop_front", "pop_back"}) =>
               /\ ~panicked'
               /\ (Popped = None) => (last'.ret = None /\ fourth' = fourth)
               /\ (Popped # None) =>
                      /\ PopResult.strong = 1
                      /\ last'.ret = fourth.nodes[Popped].elem
                      /\ fourth'.nodes[Popped] = FourthFree
                      /\ Handles(fourth', Popped) = 0
                      /\ (fourth.head = fourth.tail) =>
                             (fourth'.head = None /\ fourth'.tail = None)
       ]_vars

\* pop_back has taken the only node of the deque.
C34_Witness ==
    /\ last.op = "pop_back"
    /\ last.ret # None
    /\ fourth.head = None
    /\ fourth.tail = None
    /\ \A n \in NodeIds : fourth.nodes[n].strong = 0
    /\ ~panicked

====
